---- MODULE Spec2Model ----
(***************************************************************************)
(* Type-inference evaluation framework: the evaluator's approach lifecycle *)
(* (TypeInferenceEvaluator) and the matcher / metrics engine               *)
(* (EvaluationMetrics).                                                    *)
(*                                                                         *)
(* Spec         the evaluator used by a client that awaits each invocation *)
(*              of evaluateApproach / evaluateAllApproaches before it      *)
(*              starts the next; each action is the code that runs between *)
(*              two awaits.                                                *)
(* SpecOverlap  the same evaluator used by a client that starts further    *)
(*              invocations while earlier ones are suspended at an await.  *)
(* SpecMetrics  the data path of one evaluation: predictions and ground    *)
(*              truth are collected test case by test case and scored.     *)
(* SpecTestCases  the same data path with the test case of every collected *)
(*              prediction and ground-truth entry kept.                    *)
(* SpecTally    the same data path for one long test case with a given     *)
(*              number of correct matches.                                 *)
(* SpecHarmonic  the same data path for one test case with given numbers   *)
(*              of predictions and of ground-truth entries of one type.    *)
(* SpecCompare  compareResults on a mapping of results.                    *)
(* SpecScope    the scope stacks of RandomTypeVisitor and of               *)
(*              TypePredictionVisitor under any sequence of _enterScope    *)
(*              and _exitScope calls.                                      *)
(* SpecTraverse RandomTypeInferenceApproach.predict on sources made of     *)
(*              nested classes, methods and functions: the enter and exit  *)
(*              callbacks of RandomTypeVisitor in traversal order.         *)
(* SpecPredict  RandomTypeInferenceApproach.predict on sources with        *)
(*              identifiers inside function declarations and arrow         *)
(*              functions, with a traversal that can throw at any point.   *)
(* SpecConfigure  RandomTypeInferenceApproach under any sequence of        *)
(*              initialize calls.                                          *)
(* SpecRepeat   RandomTypeInferenceApproach configured once and then asked *)
(*              to predict several times on one source; each predict call  *)
(*              is one step.                                               *)
(* SpecTypePrediction  the traversal of a source by a                      *)
(*              TypePredictionVisitor: its enter and exit callbacks.       *)
(***************************************************************************)
EXTENDS Integers, Sequences, FiniteSets, TLC

VARIABLES registry, calls, allPredictions, allGroundTruth, result,
          scopeStack, tpScopeStack, lastCall, open, visitorPredictions, predictCall,
          tpOpen, availableTypes, randomTypeProbability, lastInitialize,
          source, runs, origins, resultMap, comparison

evaluatorVars == <<registry, calls>>
metricVars == <<allPredictions, allGroundTruth, result>>
\* RandomTypeVisitor._scopeStack, TypePredictionVisitor._scopeStack and the
\* last call made on either of them
scopeVars == <<scopeStack, tpScopeStack, lastCall>>
\* the structural nodes the traversal is inside of, RandomTypeVisitor's
\* _predictions, and the state of the predict call
traverseVars == <<open, visitorPredictions, predictCall>>
visitVars == <<scopeStack, tpScopeStack, lastCall, open, visitorPredictions, predictCall>>
\* the structural nodes the traversal of a TypePredictionVisitor is inside of
typePredictionVars == <<tpOpen>>
\* RandomTypeInferenceApproach's _availableTypes and _randomTypeProbability,
\* and the last initialize call made on it
configVars == <<availableTypes, randomTypeProbability, lastInitialize>>
\* a source and what the predict calls made on it returned
repeatVars == <<source, runs>>
\* the test case each collected prediction and ground-truth entry came from
caseVars == <<origins>>
\* the mapping handed to compareResults and what it returned
compareVars == <<resultMap, comparison>>
restVars == <<typePredictionVars, configVars, repeatVars, caseVars, compareVars>>
vars == <<registry, calls, allPredictions, allGroundTruth, result,
          scopeStack, tpScopeStack, lastCall, open, visitorPredictions, predictCall,
          tpOpen, availableTypes, randomTypeProbability, lastInitialize,
          source, runs, origins, resultMap, comparison>>

(***************************************************************************)
(* Bounds                                                                  *)
(***************************************************************************)
\* invocations a client of SpecOverlap keeps in flight, and the length of
\* the test-case lists it passes
MaxCalls == 2
MaxOverlapTestCases == 1
\* length of the test-case lists the client of Spec passes
MaxTestCases == 2

\* lengths of the prediction list and of the ground-truth list of SpecMetrics
MaxPredictions == 2
MaxGroundTruth == 2

\* number of ground-truth entries of the test case of SpecTally
MaxMatches == 22

\* numbers of predictions and of ground-truth entries of one type in the test
\* case of SpecHarmonic
MaxTyped == 5

\* scopes pushed on top of the root scope in SpecScope
MaxScopeDepth == 2

\* nesting depth of the structural nodes of the sources of SpecTraverse
MaxNesting == 2

\* nesting depth of the structural nodes of the sources of SpecTypePrediction
MaxTypePredictionNesting == 3

\* number of traversal events of the source of SpecRepeat and number of
\* predict calls made on it
MaxSourceLength == 3
MaxRuns == 2

\* nesting depth of the sources of SpecPredict and the number of predictions
\* their traversal makes
MaxPredictNesting == 1
MaxIdentifiers == 2

Slots == 1..MaxCalls
\* the slot of the client that awaits each invocation
MainSlot == 1

(***************************************************************************)
(* Approach objects a client can register.  Two of them carry the same     *)
(* name, so that a registration can overwrite an earlier one.              *)
(***************************************************************************)
Approaches ==
  { [id |-> "a1", name |-> "A"],
    [id |-> "b1", name |-> "B"],
    [id |-> "a2", name |-> "A"] }

\* the approaches the client of SpecOverlap registers
OverlapApproaches == { a \in Approaches : a.id = "a1" }

ApproachNames == { a.name : a \in Approaches }

\* a name no approach carries
Nonexistent == "Nonexistent"

\* Map.get's undefined
NoApproach == [id |-> "undefined", name |-> "undefined"]

(***************************************************************************)
(* The registry: a JavaScript Map, modelled as the sequence of its values  *)
(* in insertion order; the key of an entry is the approach's name.         *)
(***************************************************************************)
Keys(reg) == [k \in 1..Len(reg) |-> reg[k].name]

Has(reg, name) == \E k \in 1..Len(reg) : reg[k].name = name

Get(reg, name) ==
  IF Has(reg, name)
    THEN reg[CHOOSE k \in 1..Len(reg) : reg[k].name = name]
    ELSE NoApproach

\* MapSet adding an entry on every call
MapSet_Append(reg, a) == Append(reg, a)

\* Map.set: an existing key keeps its place, a new key goes last
MapSet(reg, a) ==
  IF Has(reg, a.name)
    THEN [k \in 1..Len(reg) |-> IF reg[k].name = a.name THEN a ELSE reg[k]]
    ELSE Append(reg, a)

\* results.set(approachName, result): the mapping's keys, in insertion order
ResultsSet(results, name) ==
  IF \E k \in 1..Len(results) : results[k] = name
    THEN results
    ELSE Append(results, name)

(***************************************************************************)
(* One client invocation of evaluateApproach or evaluateAllApproaches.     *)
(*   pc       the await the invocation is suspended at ("evaluate": the    *)
(*            await of evaluateApproach's promise in evaluateAllApproaches) *)
(*   approach the approach object evaluateApproach looked up               *)
(*   n        testCases.length;  i  the test case whose predict is awaited *)
(*   pending  the exception in flight while the finally block runs         *)
(*   iter     how many keys the for-of over _approaches.keys() has taken   *)
(*   results  keys of the result mapping of evaluateAllApproaches          *)
(*   evals    settled evaluateApproach executions, with their error        *)
(*   log      calls the invocation made on approaches, in program order    *)
(***************************************************************************)
FreshCall ==
  [ kind |-> "none", pc |-> "idle", name |-> "", approach |-> NoApproach,
    n |-> 0, i |-> 0, pending |-> "none", hasResult |-> FALSE,
    iter |-> 0, results |-> <<>>, evals |-> <<>>, log |-> <<>>,
    outcome |-> "pending", error |-> "none" ]

Event(c, op, ph) ==
  [ ev |-> Len(c.evals) + 1, op |-> op, ph |-> ph,
    obj |-> c.approach.id, tc |-> c.i ]

Logged(c, op, ph) == [c EXCEPT !.log = Append(@, Event(c, op, ph))]

IsStart(e) == e.ph = "start"

IsEnd(e) == e.op # "score" /\ e.ph \in {"ok", "fail"}

\* the promise of evaluateApproach settles.  A direct call is over; an
\* invocation of evaluateAllApproaches is suspended at
\* await this.evaluateApproach(...) and goes on in a later job
Settle(c, err) ==
  LET c1 == [c EXCEPT !.evals = Append(@, [name |-> c.name, error |-> err])]
  IN  IF c.kind = "approach"
        THEN [c1 EXCEPT !.pc = "done", !.error = err,
                        !.outcome = IF err = "none" THEN "resolved" ELSE "rejected"]
        ELSE [c1 EXCEPT !.pc = "evaluate"]

\* await approach.initialize(config) is issued
IssueInitialize(c) == [Logged(c, "initialize", "start") EXCEPT !.pc = "initialize"]

\* finally { await approach.dispose() }
Finally(c) == [Logged(c, "dispose", "start") EXCEPT !.pc = "dispose"]

\* IssuePredict without the await: the finally block starts while predict runs
IssuePredict_NoAwait(c) ==
  LET c1 == [c EXCEPT !.i = @ + 1]
  IN  [Logged(Logged(c1, "predict", "start"), "dispose", "start") EXCEPT !.pc = "dispose"]

\* await approach.predict(testCase.sourceCode, testCase.id) for the next test case
IssuePredict(c) ==
  LET c1 == [c EXCEPT !.i = @ + 1]
  IN  [Logged(c1, "predict", "start") EXCEPT !.pc = "predict"]

\* Scoring with dispose moved in front of generateEvaluationResult
Scoring_AfterDispose(c, scoreOk) ==
  LET c1 == [Logged(c, "dispose", "start") EXCEPT !.pc = "dispose"]
  IN  IF scoreOk
        THEN [Logged(c1, "score", "ok") EXCEPT !.hasResult = TRUE]
        ELSE [Logged(c1, "score", "fail") EXCEPT !.pending = "scoring"]

\* generateEvaluationResult, then the return that runs the finally block
Scoring(c, scoreOk) ==
  IF scoreOk
    THEN Finally([Logged(c, "score", "ok") EXCEPT !.hasResult = TRUE])
    ELSE Finally([Logged(c, "score", "fail") EXCEPT !.pending = "scoring"])

\* head of for (const testCase of testCases)
ProcessNext(c, scoreOk) ==
  IF c.i < c.n THEN IssuePredict(c) ELSE Scoring(c, scoreOk)

\* AfterInitialize with the initialize call moved inside the try block
AfterInitialize_InsideTry(c, ok, scoreOk) ==
  IF ok
    THEN ProcessNext([Logged(c, "initialize", "ok") EXCEPT !.i = 0], scoreOk)
    ELSE Finally([Logged(c, "initialize", "fail") EXCEPT !.pending = "initialize"])

\* the continuation after await approach.initialize(config)
AfterInitialize(c, ok, scoreOk) ==
  IF ok
    THEN ProcessNext([Logged(c, "initialize", "ok") EXCEPT !.i = 0], scoreOk)
    ELSE Settle(Logged(c, "initialize", "fail"), "initialize")

\* AfterRejectedPredict going on with the next test case after a rejected predict
AfterRejectedPredict_Continue(c, scoreOk) ==
  ProcessNext(Logged(c, "predict", "fail"), scoreOk)

\* a rejected await approach.predict(...) leaves the loop for the finally block
AfterRejectedPredict(c, scoreOk) ==
  Finally([Logged(c, "predict", "fail") EXCEPT !.pending = "predict"])

\* AfterPredict with dispose at the end of the try block instead of in a finally
AfterPredict_NoFinally(c, ok, scoreOk) ==
  IF ok
    THEN ProcessNext(Logged(c, "predict", "ok"), scoreOk)
    ELSE Settle(Logged(c, "predict", "fail"), "predict")

\* the continuation after await approach.predict(...)
AfterPredict(c, ok, scoreOk) ==
  IF ok
    THEN ProcessNext(Logged(c, "predict", "ok"), scoreOk)
    ELSE AfterRejectedPredict(c, scoreOk)

\* the continuation after await approach.dispose(): a rejected dispose
\* replaces the completion of the try block
AfterDispose(c, ok) ==
  IF ok
    THEN Settle(Logged(c, "dispose", "ok"), c.pending)
    ELSE Settle(Logged(c, "dispose", "fail"), "dispose")

\* NextKey walking the keys from the last one
NextKey_Reverse(reg, iter) == reg[Len(reg) - iter].name

\* for (const approachName of this._approaches.keys()): the next key
NextKey(reg, iter) == reg[iter + 1].name

\* EvaluateApproachEnter without the registration check
EvaluateApproachEnter_NoCheck(c, name) ==
  IssueInitialize([c EXCEPT !.name = name, !.approach = Get(registry, name), !.i = 0,
                            !.pending = "none", !.hasResult = FALSE])

\* evaluateApproach up to its first await
EvaluateApproachEnter(c, name) ==
  LET c1 == [c EXCEPT !.name = name, !.approach = Get(registry, name), !.i = 0,
                      !.pending = "none", !.hasResult = FALSE]
  IN  IF c1.approach = NoApproach
        THEN Settle(c1, "notRegistered")
        ELSE IssueInitialize(c1)

\* EvaluateAllLoop rejecting when there is nothing to evaluate
EvaluateAllLoop_RejectEmpty(c) ==
  IF Len(registry) = 0
    THEN [c EXCEPT !.pc = "done", !.outcome = "rejected", !.error = "empty"]
    ELSE IF c.iter < Len(registry)
      THEN EvaluateApproachEnter([c EXCEPT !.iter = @ + 1], NextKey(registry, c.iter))
      ELSE [c EXCEPT !.pc = "done", !.outcome = "resolved"]

\* the for-of loop of evaluateAllApproaches, up to the next await
EvaluateAllLoop(c) ==
  IF c.iter < Len(registry)
    THEN EvaluateApproachEnter([c EXCEPT !.iter = @ + 1], NextKey(registry, c.iter))
    ELSE [c EXCEPT !.pc = "done", !.outcome = "resolved"]

\* AfterEvaluateApproach without the try / catch around the await
AfterEvaluateApproach_NoCatch(c) ==
  LET settled == c.evals[Len(c.evals)]
  IN  IF settled.error # "none"
        THEN [c EXCEPT !.pc = "done", !.error = settled.error, !.outcome = "rejected"]
        ELSE EvaluateAllLoop([c EXCEPT !.results = ResultsSet(@, settled.name)])

\* the continuation after await this.evaluateApproach(...): results.set on a
\* fulfilled promise, the catch on a rejected one, then the loop goes on
AfterEvaluateApproach(c) ==
  LET settled == c.evals[Len(c.evals)]
  IN  EvaluateAllLoop(
        [c EXCEPT !.results = IF settled.error = "none"
                                THEN ResultsSet(@, settled.name) ELSE @])

(***************************************************************************)
(* Predictions and ground truth.  An identifier occurrence is a name at a  *)
(* (line, column) position; the context of a prediction and the scope of a *)
(* ground-truth entry play no part in the scoring and are left out.        *)
(***************************************************************************)
Types == {"number", "string"}

Occurrences ==
  { [identifier |-> "x", position |-> [line |-> 1, column |-> 0]],
    [identifier |-> "y", position |-> [line |-> 1, column |-> 0]],
    [identifier |-> "x", position |-> [line |-> 2, column |-> 4]] }

TypePrediction ==
  { [identifier |-> o.identifier, predictedType |-> t, position |-> o.position] :
      o \in Occurrences, t \in Types }

GroundTruthType ==
  { [identifier |-> o.identifier, actualType |-> t, position |-> o.position] :
      o \in Occurrences, t \in Types }

\* the quotient a division computes, before it is rounded to a double (see
\* Double), kept as the fraction num / den, den > 0
Fraction(num, den) == [num |-> num, den |-> den]

Zero == Fraction(0, 1)

FracEq(a, b) == a.num * b.den = b.num * a.den

FracLeq(a, b) == a.num * b.den <= b.num * a.den

(***************************************************************************)
(* The value a division yields in the code: the IEEE-754 double nearest to *)
(* the quotient (round to nearest, ties to even).  A double other than 0   *)
(* is its significand, Precision binary digits of which the first is 1,    *)
(* and its exponent: the value is 1.b2 b3 ... times 2^exp.  Numerators and *)
(* denominators are counts, far from the range where doubles overflow or   *)
(* become subnormal.                                                       *)
(***************************************************************************)
Precision == 53

ZeroDouble == [zero |-> TRUE, bits |-> <<>>, exp |-> 0]

\* num / den scaled by a power of two so that 1 <= num / den < 2
RECURSIVE Normalized(_, _, _)
Normalized(num, den, exp) ==
  IF num < den THEN Normalized(2 * num, den, exp - 1)
  ELSE IF num >= 2 * den THEN Normalized(num, 2 * den, exp + 1)
  ELSE [num |-> num, den |-> den, exp |-> exp]

\* the binary digits of the quotient after the ones in bits, up to Precision
\* digits in all, and the remainder they leave
RECURSIVE LongDivision(_, _, _)
LongDivision(bits, rem, den) ==
  IF Len(bits) = Precision THEN [bits |-> bits, rem |-> rem]
  ELSE LET bit == IF 2 * rem >= den THEN 1 ELSE 0
       IN  LongDivision(Append(bits, bit), 2 * rem - bit * den, den)

\* the digits of the significand one unit in the last place higher; all
\* zeros when the digits were all ones
Increment(bits) ==
  LET zeros == {k \in 1..Len(bits) : bits[k] = 0}
      last == IF zeros = {} THEN 0 ELSE CHOOSE k \in zeros : \A j \in zeros : j <= k
  IN  [k \in 1..Len(bits) |->
         IF k < last THEN bits[k] ELSE IF k = last THEN 1 ELSE 0]

\* rounding to nearest, ties to even: discarded is the sign of what was cut
\* off minus half a unit in the last place
Rounded(bits, exp, discarded) ==
  IF discarded > 0 \/ (discarded = 0 /\ bits[Precision] = 1)
    THEN LET up == Increment(bits)
         IN  IF up[1] = 1
               THEN [zero |-> FALSE, bits |-> up, exp |-> exp]
               ELSE [zero |-> FALSE, bits |-> <<1>> \o SubSeq(up, 2, Precision),
                     exp |-> exp + 1]
    ELSE [zero |-> FALSE, bits |-> bits, exp |-> exp]

Sign(k) == IF k > 0 THEN 1 ELSE IF k < 0 THEN -1 ELSE 0

\* num / den for counts num >= 0 and den > 0
DoubleDivide(num, den) ==
  IF num = 0 THEN ZeroDouble
  ELSE LET n == Normalized(num, den, 0)
           q == LongDivision(<<1>>, n.num - n.den, n.den)
       IN  Rounded(q.bits, n.exp, Sign(2 * q.rem - n.den))

\* the number a quotient of the metrics is in the code
Double(fraction) == DoubleDivide(fraction.num, fraction.den)

(***************************************************************************)
(* The arithmetic of line 126 on doubles: 2 * precision is exact, the      *)
(* product with recall, the sum precision + recall and the quotient of the *)
(* two are each rounded to the nearest double.  Significands are           *)
(* multiplied and added digit by digit; the division keeps its remainder   *)
(* in two words of 30 binary digits.                                       *)
(***************************************************************************)
\* the binary digits of a positive integer
RECURSIVE Binary(_)
Binary(k) == IF k = 0 THEN <<>> ELSE Binary(k \div 2) \o <<k % 2>>

\* the integer fewer than 31 binary digits are
RECURSIVE Natural(_)
Natural(digits) ==
  IF digits = <<>> THEN 0
  ELSE 2 * Natural(SubSeq(digits, 1, Len(digits) - 1)) + digits[Len(digits)]

Zeros(n) == [j \in 1..n |-> 0]

\* the binary digits of bits * n, of which the last Len(low) are low and
\* have left the carry
RECURSIVE TimesBits(_, _, _, _)
TimesBits(bits, n, carry, low) ==
  IF Len(low) = Len(bits) THEN Binary(carry) \o low
  ELSE LET v == bits[Len(bits) - Len(low)] * n + carry
       IN  TimesBits(bits, n, v \div 2, <<v % 2>> \o low)

\* the binary digits of a + b for two sequences of digits of one length
RECURSIVE PlusBits(_, _, _, _)
PlusBits(a, b, carry, low) ==
  IF Len(low) = Len(a) THEN Binary(carry) \o low
  ELSE LET v == a[Len(a) - Len(low)] + b[Len(a) - Len(low)] + carry
       IN  PlusBits(a, b, v \div 2, <<v % 2>> \o low)

\* the double nearest to d1.d2 d3 ... times 2^exp, for Precision or more
\* digits of which the first is 1
Nearest(digits, exp) ==
  LET extra == Len(digits) - Precision
      cut == SubSeq(digits, Precision + 1, Len(digits))
      discarded ==
        IF extra = 0 \/ cut[1] = 0 THEN -1
        ELSE IF \E j \in 2..extra : cut[j] = 1 THEN 1 ELSE 0
  IN  Rounded(SubSeq(digits, 1, Precision), exp, discarded)

\* 2 * x
Twice(x) == IF x.zero THEN x ELSE [x EXCEPT !.exp = @ + 1]

\* x * y: the significand of y is split in two integers
DoubleProduct(x, y) ==
  IF x.zero \/ y.zero THEN ZeroDouble
  ELSE LET split == Precision \div 2
           upper == TimesBits(x.bits, Natural(SubSeq(y.bits, 1, split)), 0, <<>>)
                      \o Zeros(Precision - split)
           lower == TimesBits(x.bits, Natural(SubSeq(y.bits, split + 1, Precision)),
                              0, <<>>)
           product == PlusBits(upper, Zeros(Len(upper) - Len(lower)) \o lower, 0, <<>>)
       IN  Nearest(product, x.exp + y.exp + Len(product) - (2 * Precision - 1))

\* x + y for x, y >= 0
DoubleSum(x, y) ==
  IF x.zero THEN y
  ELSE IF y.zero THEN x
  ELSE LET big == IF x.exp >= y.exp THEN x ELSE y
           small == IF x.exp >= y.exp THEN y ELSE x
           shift == big.exp - small.exp
           sum == PlusBits(big.bits \o Zeros(shift), Zeros(shift) \o small.bits, 0, <<>>)
       IN  Nearest(sum, big.exp + Len(sum) - (Precision + shift))

\* an integer below 2^60 in two words: high * 2^30 + low, 0 <= low < 2^30
Wide(high, low) == [high |-> high + low \div 2^30, low |-> low % 2^30]

WideOf(bits) ==
  Wide(Natural(SubSeq(bits, 1, Len(bits) - 30)),
       Natural(SubSeq(bits, Len(bits) - 29, Len(bits))))

WideLess(a, b) == a.high < b.high \/ (a.high = b.high /\ a.low < b.low)

\* a - b for a >= b
WideMinus(a, b) == Wide(a.high - b.high, a.low - b.low)

WideTwice(a) == Wide(2 * a.high, 2 * a.low)

\* LongDivision for a divisor of Precision digits
RECURSIVE WideDivision(_, _, _)
WideDivision(bits, rem, den) ==
  IF Len(bits) = Precision THEN [bits |-> bits, rem |-> rem]
  ELSE LET twice == WideTwice(rem)
       IN  IF WideLess(twice, den)
             THEN WideDivision(Append(bits, 0), twice, den)
             ELSE WideDivision(Append(bits, 1), WideMinus(twice, den), den)

\* x / y for x >= 0 and y > 0
DoubleQuotient(x, y) ==
  IF x.zero THEN ZeroDouble
  ELSE LET den == WideOf(y.bits)
           below == WideLess(WideOf(x.bits), den)
           num == IF below THEN WideTwice(WideOf(x.bits)) ELSE WideOf(x.bits)
           q == WideDivision(<<1>>, WideMinus(num, den), den)
           twice == WideTwice(q.rem)
           discarded == IF WideLess(den, twice) THEN 1
                        ELSE IF twice = den THEN 0 ELSE -1
       IN  Rounded(q.bits, x.exp - y.exp - (IF below THEN 1 ELSE 0), discarded)

\* a JavaScript Map as the sequence of its entries in insertion order
MapHas(m, key) == \E k \in 1..Len(m) : m[k].key = key

MapGet(m, key) == m[CHOOSE k \in 1..Len(m) : m[k].key = key].val

MapPut(m, key, val) ==
  IF MapHas(m, key)
    THEN [k \in 1..Len(m) |-> IF m[k].key = key THEN [key |-> key, val |-> val] ELSE m[k]]
    ELSE Append(m, [key |-> key, val |-> val])

\* Found returning the last of the indices
Found_Last(hits) ==
  IF hits = {} THEN 0 ELSE CHOOSE g \in hits : \A h \in hits : g >= h

\* Array.prototype.find over the indices that satisfy the test: the first
\* of them, 0 for undefined
Found(hits) ==
  IF hits = {} THEN 0 ELSE CHOOSE g \in hits : \A h \in hits : g <= h

\* FindGroundTruth comparing the identifier only
FindGroundTruth_ByIdentifier(prediction, groundTruth) ==
  LET hits == { g \in 1..Len(groundTruth) :
                  groundTruth[g].identifier = prediction.identifier }
  IN  IF hits = {} THEN 0 ELSE CHOOSE g \in hits : \A h \in hits : g <= h

\* groundTruth.find(...): the index of the first entry with the prediction's
\* identifier, line and column, 0 for undefined
FindGroundTruth(prediction, groundTruth) ==
  LET hits == { g \in 1..Len(groundTruth) :
                  /\ groundTruth[g].identifier = prediction.identifier
                  /\ groundTruth[g].position.line = prediction.position.line
                  /\ groundTruth[g].position.column = prediction.position.column }
  IN  Found(hits)

\* getMatches over the first k predictions; a Match refers to its prediction
\* and to its ground-truth entry by their indices in the two lists
RECURSIVE MatchesUpTo(_, _, _)
MatchesUpTo(predictions, groundTruth, k) ==
  IF k = 0 THEN <<>>
  ELSE LET prediction == predictions[k]
           g == FindGroundTruth(prediction, groundTruth)
           before == MatchesUpTo(predictions, groundTruth, k - 1)
       IN  IF g # 0
             THEN Append(before,
                    [ prediction |-> k, groundTruth |-> g,
                      correct |-> prediction.predictedType = groundTruth[g].actualType,
                      predictedType |-> prediction.predictedType,
                      actualType |-> groundTruth[g].actualType ])
             ELSE before

GetMatches(predictions, groundTruth) ==
  MatchesUpTo(predictions, groundTruth, Len(predictions))

\* CountCorrect counting every match
CountCorrect_All(matches) == Len(matches)

CountCorrect(matches) == Len(SelectSeq(matches, LAMBDA m : m.correct))

\* CalculateAccuracy dividing by the number of predictions
CalculateAccuracy_OverPredictions(predictions, groundTruth) ==
  LET matches == GetMatches(predictions, groundTruth)
  IN  IF Len(predictions) > 0
        THEN Fraction(CountCorrect(matches), Len(predictions))
        ELSE Zero

CalculateAccuracy(predictions, groundTruth) ==
  LET matches == GetMatches(predictions, groundTruth)
      correctPredictions == CountCorrect(matches)
  IN  IF Len(matches) > 0
        THEN Fraction(correctPredictions, Len(matches))
        ELSE Zero

\* groupByPredictedType: type -> the matches predicted as that type
RECURSIVE GroupByPredictedTypeUpTo(_, _)
GroupByPredictedTypeUpTo(matches, k) ==
  IF k = 0 THEN <<>>
  ELSE LET groups == GroupByPredictedTypeUpTo(matches, k - 1)
           type == matches[k].predictedType
           group == IF MapHas(groups, type) THEN MapGet(groups, type) ELSE <<>>
       IN  MapPut(groups, type, Append(group, matches[k]))

GroupByPredictedType(matches) == GroupByPredictedTypeUpTo(matches, Len(matches))

\* CalculatePrecisionByType dividing by the number of all matches
CalculatePrecisionByType_OverAllMatches(predictions, groundTruth) ==
  LET matches == GetMatches(predictions, groundTruth)
      typeGroups == GroupByPredictedType(matches)
  IN  [k \in 1..Len(typeGroups) |->
         [ key |-> typeGroups[k].key,
           val |-> IF Len(matches) > 0
                     THEN Fraction(CountCorrect(typeGroups[k].val), Len(matches))
                     ELSE Zero ]]

CalculatePrecisionByType(predictions, groundTruth) ==
  LET matches == GetMatches(predictions, groundTruth)
      typeGroups == GroupByPredictedType(matches)
  IN  [k \in 1..Len(typeGroups) |->
         LET typeMatches == typeGroups[k].val
             correctPredictions == CountCorrect(typeMatches)
             totalPredictions == Len(typeMatches)
         IN  [ key |-> typeGroups[k].key,
               val |-> IF totalPredictions > 0
                         THEN Fraction(correctPredictions, totalPredictions)
                         ELSE Zero ]]

\* groupByActualType: type -> the number of ground-truth entries of that type
RECURSIVE GroupByActualTypeUpTo(_, _)
GroupByActualTypeUpTo(groundTruth, k) ==
  IF k = 0 THEN <<>>
  ELSE LET groups == GroupByActualTypeUpTo(groundTruth, k - 1)
           type == groundTruth[k].actualType
           count == IF MapHas(groups, type) THEN MapGet(groups, type) ELSE 0
       IN  MapPut(groups, type, count + 1)

\* GroupByActualType counting the matched ground-truth entries, once per match
GroupByActualType_Matched(groundTruth, matches) ==
  GroupByActualTypeUpTo([k \in 1..Len(matches) |-> groundTruth[matches[k].groundTruth]],
                        Len(matches))

GroupByActualType(groundTruth, matches) ==
  GroupByActualTypeUpTo(groundTruth, Len(groundTruth))

CalculateRecallByType(predictions, groundTruth) ==
  LET matches == GetMatches(predictions, groundTruth)
      typeGroups == GroupByActualType(groundTruth, matches)
  IN  [k \in 1..Len(typeGroups) |->
         LET type == typeGroups[k].key
             actualTypeInstances == typeGroups[k].val
             correctPredictions ==
               Len(SelectSeq(matches, LAMBDA m : m.correct /\ m.actualType = type))
         IN  [ key |-> type,
               val |-> IF actualTypeInstances > 0
                         THEN Fraction(correctPredictions, actualTypeInstances)
                         ELSE Zero ]]

\* new Set([...precisionByType.keys(), ...recallByType.keys()]) in insertion order
RECURSIVE UnionKeys(_, _, _)
UnionKeys(seen, m, k) ==
  IF k > Len(m) THEN seen
  ELSE UnionKeys(IF \E j \in 1..Len(seen) : seen[j] = m[k].key
                   THEN seen ELSE Append(seen, m[k].key),
                 m, k + 1)

\* map.get(type) || 0
GetOrZero(m, type) == IF MapHas(m, type) THEN MapGet(m, type) ELSE Zero

\* CalculateF1ScoreByType taking the arithmetic mean (precision + recall) / 2
CalculateF1ScoreByType_Mean(precisionByType, recallByType) ==
  LET allTypes == UnionKeys(UnionKeys(<<>>, precisionByType, 1), recallByType, 1)
  IN  [k \in 1..Len(allTypes) |->
         LET precision == Double(GetOrZero(precisionByType, allTypes[k]))
             recall == Double(GetOrZero(recallByType, allTypes[k]))
             sum == DoubleSum(precision, recall)
         IN  [ key |-> allTypes[k],
               val |-> IF sum.zero THEN sum ELSE [sum EXCEPT !.exp = @ - 1] ]]

\* lines 123 to 127 on the doubles precision and recall
F1Score(precision, recall) ==
  LET sum == DoubleSum(precision, recall)
  IN  IF sum.zero THEN ZeroDouble
      ELSE DoubleQuotient(DoubleProduct(Twice(precision), recall), sum)

\* the quotients of the counts of SpecMetrics, and their F1 scores computed
\* once
SmallQuotients ==
  { Fraction(num, den) :
      num \in 0..MaxPredictions, den \in (1..MaxPredictions) \cup (1..MaxGroundTruth) }

SmallF1Scores ==
  [P \in SmallQuotients, R \in SmallQuotients |-> F1Score(Double(P), Double(R))]

\* the entries of the two maps are the doubles of their quotients; the F1
\* of a type is a double
CalculateF1ScoreByType(precisionByType, recallByType) ==
  LET allTypes == UnionKeys(UnionKeys(<<>>, precisionByType, 1), recallByType, 1)
  IN  [k \in 1..Len(allTypes) |->
         LET precision == GetOrZero(precisionByType, allTypes[k])
             recall == GetOrZero(recallByType, allTypes[k])
         IN  [ key |-> allTypes[k],
               val |-> IF <<precision, recall>> \in DOMAIN SmallF1Scores
                         THEN SmallF1Scores[precision, recall]
                         ELSE F1Score(Double(precision), Double(recall)) ]]

NoResult ==
  [ scored |-> FALSE, approachName |-> "", predictions |-> <<>>, accuracy |-> Zero,
    precisionByType |-> <<>>, recallByType |-> <<>>, f1ScoreByType |-> <<>>,
    totalPredictions |-> 0, correctPredictions |-> 0, executionTime |-> 0 ]

\* GenerateEvaluationResult reporting the number of predictions as the total
GenerateEvaluationResult_RawTotal(approachName, predictions, groundTruth, executionTime) ==
  LET precisionByType == CalculatePrecisionByType(predictions, groundTruth)
      recallByType == CalculateRecallByType(predictions, groundTruth)
  IN  [ scored |-> TRUE,
        approachName |-> approachName,
        predictions |-> predictions,
        accuracy |-> CalculateAccuracy(predictions, groundTruth),
        precisionByType |-> precisionByType,
        recallByType |-> recallByType,
        f1ScoreByType |-> CalculateF1ScoreByType(precisionByType, recallByType),
        totalPredictions |-> Len(predictions),
        correctPredictions |-> CountCorrect(GetMatches(predictions, groundTruth)),
        executionTime |-> executionTime ]

GenerateEvaluationResult(approachName, predictions, groundTruth, executionTime) ==
  LET matches == GetMatches(predictions, groundTruth)
      correctPredictions == CountCorrect(matches)
      accuracy == CalculateAccuracy(predictions, groundTruth)
      precisionByType == CalculatePrecisionByType(predictions, groundTruth)
      recallByType == CalculateRecallByType(predictions, groundTruth)
      f1ScoreByType == CalculateF1ScoreByType(precisionByType, recallByType)
  IN  [ scored |-> TRUE,
        approachName |-> approachName,
        predictions |-> predictions,
        accuracy |-> accuracy,
        precisionByType |-> precisionByType,
        recallByType |-> recallByType,
        f1ScoreByType |-> f1ScoreByType,
        totalPredictions |-> Len(matches),
        correctPredictions |-> correctPredictions,
        executionTime |-> executionTime ]

(***************************************************************************)
(* Scope tracking of the visitors.  A scope is a string built by template  *)
(* literals; it is kept as the sequence of the pieces it is concatenated   *)
(* from, so that "class:" followed by "C" is <<"class:", "C">>.            *)
(***************************************************************************)
Global == <<"global">>

\* RandomTypeVisitor: this._scopeStack.at(-1) || "global"
CurrentScope(stack) == IF Len(stack) > 0 THEN stack[Len(stack)] ELSE Global

EnterScope(stack, scope) == Append(stack, scope)

\* ExitScope without the length guard: pop() on every call
ExitScope_Unguarded(stack) ==
  IF Len(stack) > 0 THEN SubSeq(stack, 1, Len(stack) - 1) ELSE stack

ExitScope(stack) ==
  IF Len(stack) > 1 THEN SubSeq(stack, 1, Len(stack) - 1) ELSE stack

\* TypePredictionVisitor: this._scopeStack.at(-1)
TypePredictionCurrentScope(stack) == stack[Len(stack)]

TypePredictionEnterScope(stack, scope) == Append(stack, scope)

TypePredictionExitScope(stack) ==
  IF Len(stack) > 1 THEN SubSeq(stack, 1, Len(stack) - 1) ELSE stack

NoCall == [visitor |-> "none", op |-> "none", before |-> <<>>]

(***************************************************************************)
(* The callbacks of RandomTypeVisitor.  A structural node is its type and  *)
(* the name it carries: the id of a declaration or function expression,    *)
(* the key of a method when the key is an Identifier; NoName when the id   *)
(* is null or the key is not an Identifier.                                *)
(***************************************************************************)
NoName == ""

StructuralNodes ==
  { [type |-> "ClassDeclaration", name |-> n] : n \in {"C", NoName} }
    \cup { [type |-> "FunctionDeclaration", name |-> n] : n \in {"f", NoName} }
    \cup { [type |-> "ClassMethod", name |-> n] : n \in {"m", NoName} }
    \cup { [type |-> "ArrowFunctionExpression", name |-> NoName] }
    \cup { [type |-> "FunctionExpression", name |-> n] : n \in {"g", NoName} }

ClassDeclarationEnter(stack, node) ==
  IF node.name # NoName THEN EnterScope(stack, <<"class:", node.name>>) ELSE stack

FunctionDeclarationEnter(stack, node) ==
  IF node.name # NoName THEN EnterScope(stack, <<"function:", node.name>>) ELSE stack

ClassMethodEnter(stack, node) ==
  IF node.name # NoName
    THEN EnterScope(stack, CurrentScope(stack) \o <<".", node.name>>)
    ELSE stack

ArrowFunctionExpressionEnter(stack) ==
  EnterScope(stack, CurrentScope(stack) \o <<".", "arrow">>)

FunctionExpressionEnter(stack, node) ==
  LET name == IF node.name # NoName THEN node.name ELSE "anonymous"
  IN  EnterScope(stack, CurrentScope(stack) \o <<".", name>>)

\* the enter callback the traversal calls for a node
NodeEnter(stack, node) ==
  CASE node.type = "ClassDeclaration" -> ClassDeclarationEnter(stack, node)
    [] node.type = "FunctionDeclaration" -> FunctionDeclarationEnter(stack, node)
    [] node.type = "ClassMethod" -> ClassMethodEnter(stack, node)
    [] node.type = "ArrowFunctionExpression" -> ArrowFunctionExpressionEnter(stack)
    [] node.type = "FunctionExpression" -> FunctionExpressionEnter(stack, node)

\* the exit callback of every structural node
NodeExit(stack, node) == ExitScope(stack)

(***************************************************************************)
(* The callbacks of TypePredictionVisitor                                  *)
(***************************************************************************)
\* id?.name || "anonymous", and the key's name or "anonymous" for a method
NameOrAnonymous(node) == IF node.name # NoName THEN node.name ELSE "anonymous"

TypePredictionClassDeclarationEnter(stack, node) ==
  TypePredictionEnterScope(stack, <<"class:", NameOrAnonymous(node)>>)

TypePredictionFunctionDeclarationEnter(stack, node) ==
  TypePredictionEnterScope(stack, <<"function:", NameOrAnonymous(node)>>)

\* TypePredictionClassMethodEnter opening a scope for an Identifier key only
TypePredictionClassMethodEnter_IdentifierOnly(stack, node) ==
  IF node.name # NoName
    THEN TypePredictionEnterScope(stack,
           TypePredictionCurrentScope(stack) \o <<".", node.name>>)
    ELSE stack

TypePredictionClassMethodEnter(stack, node) ==
  TypePredictionEnterScope(stack,
    TypePredictionCurrentScope(stack) \o <<".", NameOrAnonymous(node)>>)

TypePredictionArrowFunctionExpressionEnter(stack) ==
  TypePredictionEnterScope(stack,
    TypePredictionCurrentScope(stack) \o <<".", "arrow-function">>)

TypePredictionFunctionExpressionEnter(stack, node) ==
  TypePredictionEnterScope(stack,
    TypePredictionCurrentScope(stack) \o <<".", NameOrAnonymous(node)>>)

TypePredictionNodeEnter(stack, node) ==
  CASE node.type = "ClassDeclaration" -> TypePredictionClassDeclarationEnter(stack, node)
    [] node.type = "FunctionDeclaration" -> TypePredictionFunctionDeclarationEnter(stack, node)
    [] node.type = "ClassMethod" -> TypePredictionClassMethodEnter(stack, node)
    [] node.type = "ArrowFunctionExpression" -> TypePredictionArrowFunctionExpressionEnter(stack)
    [] node.type = "FunctionExpression" -> TypePredictionFunctionExpressionEnter(stack, node)

TypePredictionNodeExit(stack, node) == TypePredictionExitScope(stack)

\* the Identifier callback: skipped is the outcome of the parent test,
\* make and type are the draws of prng.nextBoolean and prng.pickOne
IdentifierVisit(preds, stack, identifier, skipped, make, type) ==
  IF skipped THEN preds
  ELSE IF make
    THEN Append(preds,
           [ identifier |-> identifier.name,
             predictedType |-> type,
             position |-> identifier.position,
             scope |-> CurrentScope(stack) ])
    ELSE preds

IdleCall == [pc |-> "idle", outcome |-> "none", returned |-> <<>>, warned |-> FALSE]

\* PredictCatch with a catch block that warns and throws the error on
PredictCatch_Rethrow(call, preds) ==
  [pc |-> "done", outcome |-> "rejected", returned |-> <<>>, warned |-> TRUE]

\* the catch block of predict (console.warn) and the return that follows it

PredictCatch(call, preds) ==
  [pc |-> "done", outcome |-> "resolved", returned |-> preds, warned |-> TRUE]

\* the return of predict after a traversal that ran to its end
PredictReturn(call, preds) ==
  [pc |-> "done", outcome |-> "resolved", returned |-> preds, warned |-> FALSE]

(***************************************************************************)
(* RandomTypeInferenceApproach: its two options and initialize.  A value   *)
(* of a configuration mapping is a JavaScript value: undefined for a key   *)
(* that is not there, an array of strings, a number or a string.           *)
(***************************************************************************)
DefaultTypes ==
  <<"boolean", "string", "number", "object", "array", "function", "null", "undefined">>

Value(kind, items, num) == [kind |-> kind, items |-> items, num |-> num]

Undefined == Value("undefined", <<>>, Zero)

ArrayOf(items) == Value("array", items, Zero)

Number(num) == Value("number", <<>>, num)

\* a string, as the sequence of its characters
String(text) == Value("string", text, Zero)

NoConfig == [availableTypes |-> Undefined, randomTypeProbability |-> Undefined,
             other |-> Undefined]

NoInitialize ==
  [ called |-> FALSE, config |-> NoConfig,
    before |-> [availableTypes |-> <<>>, randomTypeProbability |-> Zero] ]

\* the truthiness of a configuration value
Truthy(value) ==
  CASE value.kind = "undefined" -> FALSE
    [] value.kind = "array" -> TRUE
    [] value.kind = "number" -> value.num.num # 0
    [] value.kind = "string" -> value.items # <<>>

\* InitializeAvailableTypes falling back to the default list for a missing key
InitializeAvailableTypes_ResetMissing(current, config) ==
  IF Truthy(config.availableTypes) /\ config.availableTypes.kind = "array"
    THEN config.availableTypes.items
    ELSE DefaultTypes

\* _availableTypes after initialize(config)
InitializeAvailableTypes(current, config) ==
  IF Truthy(config.availableTypes) /\ config.availableTypes.kind = "array"
    THEN config.availableTypes.items
    ELSE current

\* _randomTypeProbability after initialize(config)
InitializeRandomTypeProbability(current, config) ==
  IF config.randomTypeProbability.kind = "number"
    THEN config.randomTypeProbability.num
    ELSE current

(***************************************************************************)
(* The draws of the pseudo-random generator as the sets of their possible  *)
(* outcomes: nextBoolean(p) is false for p = 0 and true for p = 1, pickOne *)
(* returns one element of a non-empty list.                                *)
(***************************************************************************)
NextBoolean(probability) ==
  IF probability.num = 0 THEN {FALSE}
  ELSE IF probability.num >= probability.den THEN {TRUE}
  ELSE BOOLEAN

PickOne(options) == {options[k] : k \in 1..Len(options)}

(***************************************************************************)
(* One predict call as a whole.  The source is the sequence of the         *)
(* callbacks its traversal makes: enter and exit of a structural node and  *)
(* Identifier, which the parent test skips or not; the identifier of the   *)
(* k-th event stands on line k.  draws holds, for each event, the outcomes *)
(* of the generator the Identifier callback would get.                     *)
(***************************************************************************)
IdentifierAt(k) == [name |-> "x", position |-> [line |-> k, column |-> 0]]

\* NewVisitor keeping the visitor of the call before
NewVisitor_Reused(held) == held

\* new RandomTypeVisitor(...): it takes nothing from a visitor held before
NewVisitor(held) == [scopeStack |-> <<Global>>, predictions |-> <<>>]

RECURSIVE TraverseFrom(_, _, _, _)
TraverseFrom(visitor, src, k, draws) ==
  IF k > Len(src) THEN visitor
  ELSE LET event == src[k]
           next ==
             CASE event.kind = "enter" ->
                    [visitor EXCEPT !.scopeStack = NodeEnter(@, event.node)]
               [] event.kind = "exit" ->
                    [visitor EXCEPT !.scopeStack = NodeExit(@, event.node)]
               [] event.kind = "identifier" ->
                    [visitor EXCEPT !.predictions =
                       IdentifierVisit(@, visitor.scopeStack, IdentifierAt(k),
                                       event.skipped, draws[k].make, draws[k].type)]
       IN  TraverseFrom(next, src, k + 1, draws)

\* the visitor after visitor.visit(sourceCode, ...)
Visit(held, src, draws) == TraverseFrom(NewVisitor(held), src, 1, draws)

\* no test case processed yet: their number, and for each collected
\* prediction and ground-truth entry the number of its test case
NoOrigins == [testCases |-> 0, predictions |-> <<>>, groundTruth |-> <<>>]

NoComparison ==
  [ compared |-> FALSE,
    bestAccuracy |-> [approach |-> "", score |-> Fraction(-1, 1)],
    fastestExecution |-> [approach |-> "", infinite |-> TRUE, time |-> 0],
    totalTestCases |-> 0,
    detailedComparison |-> <<>> ]

(***************************************************************************)
(* Actions of the evaluator.  A slot holds one invocation; the client      *)
(* takes the slots in order.                                               *)
(***************************************************************************)
CanStart(s) ==
  /\ calls[s].pc = "idle"
  /\ \A t \in Slots : t < s => calls[t].pc # "idle"

RegisterApproach(a) ==
  /\ registry' = MapSet(registry, a)
  /\ UNCHANGED <<calls, metricVars, visitVars, restVars>>

EvaluateApproach(s, name, n) ==
  /\ CanStart(s)
  /\ calls' = [calls EXCEPT ![s] =
       EvaluateApproachEnter([FreshCall EXCEPT !.kind = "approach", !.n = n], name)]
  /\ UNCHANGED <<registry, metricVars, visitVars, restVars>>

EvaluateAllApproaches(s, n) ==
  /\ CanStart(s)
  /\ calls' = [calls EXCEPT ![s] =
       EvaluateAllLoop([FreshCall EXCEPT !.kind = "all", !.n = n])]
  /\ UNCHANGED <<registry, metricVars, visitVars, restVars>>

InitializeSettles(s, ok, scoreOk) ==
  /\ calls[s].pc = "initialize"
  /\ calls' = [calls EXCEPT ![s] = AfterInitialize(calls[s], ok, scoreOk)]
  /\ UNCHANGED <<registry, metricVars, visitVars, restVars>>

PredictSettles(s, ok, scoreOk) ==
  /\ calls[s].pc = "predict"
  /\ calls' = [calls EXCEPT ![s] = AfterPredict(calls[s], ok, scoreOk)]
  /\ UNCHANGED <<registry, metricVars, visitVars, restVars>>

DisposeSettles(s, ok) ==
  /\ calls[s].pc = "dispose"
  /\ calls' = [calls EXCEPT ![s] = AfterDispose(calls[s], ok)]
  /\ UNCHANGED <<registry, metricVars, visitVars, restVars>>

EvaluateApproachSettles(s) ==
  /\ calls[s].pc = "evaluate"
  /\ calls' = [calls EXCEPT ![s] = AfterEvaluateApproach(calls[s])]
  /\ UNCHANGED <<registry, metricVars, visitVars, restVars>>

Init ==
  /\ registry = <<>>
  /\ calls = [s \in Slots |-> FreshCall]
  /\ allPredictions = <<>>
  /\ allGroundTruth = <<>>
  /\ result = NoResult
  /\ scopeStack = <<Global>>
  /\ tpScopeStack = <<Global>>
  /\ lastCall = NoCall
  /\ open = <<>>
  /\ visitorPredictions = <<>>
  /\ predictCall = IdleCall
  /\ tpOpen = <<>>
  /\ availableTypes = DefaultTypes
  /\ randomTypeProbability = Fraction(1, 1)
  /\ lastInitialize = NoInitialize
  /\ source = <<>>
  /\ runs = <<>>
  /\ origins = NoOrigins
  /\ resultMap = <<>>
  /\ comparison = NoComparison

Step(slots, maxN, approaches, scoring) ==
  \/ \E a \in approaches : RegisterApproach(a)
  \/ \E s \in slots, name \in ApproachNames \cup {Nonexistent}, n \in 0..maxN :
       EvaluateApproach(s, name, n)
  \/ \E s \in slots, n \in 0..maxN : EvaluateAllApproaches(s, n)
  \/ \E s \in slots, ok \in BOOLEAN, scoreOk \in scoring : InitializeSettles(s, ok, scoreOk)
  \/ \E s \in slots, ok \in BOOLEAN, scoreOk \in scoring : PredictSettles(s, ok, scoreOk)
  \/ \E s \in slots, ok \in BOOLEAN : DisposeSettles(s, ok)
  \/ \E s \in slots : EvaluateApproachSettles(s)

Next == Step({MainSlot}, MaxTestCases, Approaches, BOOLEAN)

Spec == Init /\ [][Next]_vars

\* the predictions and ground truth of the overlapping invocations are well
\* formed, so that their scoring does not throw
NextOverlap == Step(Slots, MaxOverlapTestCases, OverlapApproaches, {TRUE})

SpecOverlap == Init /\ [][NextOverlap]_vars

(***************************************************************************)
(* The data path of one evaluation (the try block of evaluateApproach):    *)
(* each test case adds the predictions the approach returned for it and    *)
(* its ground truth; when the test cases are exhausted the lists are       *)
(* scored.  The approach is pluggable, so a test case's predictions are    *)
(* any predictions; a test case brings at most one prediction and one      *)
(* ground-truth entry, longer ones arise as several test cases.            *)
(***************************************************************************)
AtMostOne(S) == {<<>>} \cup {<<x>> : x \in S}

ExecutionTimes == {0, 7}

CollectTestCase(predictions, groundTruth) ==
  /\ ~result.scored
  /\ Len(allPredictions) + Len(predictions) <= MaxPredictions
  /\ Len(allGroundTruth) + Len(groundTruth) <= MaxGroundTruth
  /\ allPredictions' = allPredictions \o predictions
  /\ allGroundTruth' = allGroundTruth \o groundTruth
  /\ UNCHANGED <<registry, calls, result, visitVars, restVars>>

Score(executionTime) ==
  /\ ~result.scored
  /\ result' = GenerateEvaluationResult("A", allPredictions, allGroundTruth, executionTime)
  /\ UNCHANGED <<registry, calls, allPredictions, allGroundTruth, visitVars, restVars>>

NextMetrics ==
  \/ \E predictions \in AtMostOne(TypePrediction), groundTruth \in AtMostOne(GroundTruthType) :
       CollectTestCase(predictions, groundTruth)
  \/ \E executionTime \in ExecutionTimes : Score(executionTime)

SpecMetrics == Init /\ [][NextMetrics]_vars

(***************************************************************************)
(* The same data path with the test cases told apart: origins keeps, for   *)
(* every element of allPredictions and allGroundTruth, the number of the   *)
(* test case whose loop iteration pushed it.  The test cases are sources   *)
(* that hold the same identifiers at the same positions.                   *)
(***************************************************************************)
SharedOccurrences == {o \in Occurrences : o.position.line = 1}

\* one iteration of the loop over testCases
ProcessTestCase(predictions, groundTruth) ==
  /\ ~result.scored
  /\ origins.testCases < MaxTestCases
  /\ Len(allPredictions) + Len(predictions) <= MaxPredictions
  /\ Len(allGroundTruth) + Len(groundTruth) <= MaxGroundTruth
  /\ allPredictions' = allPredictions \o predictions
  /\ allGroundTruth' = allGroundTruth \o groundTruth
  /\ origins' =
       LET testCase == origins.testCases + 1
       IN  [ testCases |-> testCase,
             predictions |-> origins.predictions \o [k \in 1..Len(predictions) |-> testCase],
             groundTruth |-> origins.groundTruth \o [k \in 1..Len(groundTruth) |-> testCase] ]
  /\ UNCHANGED <<registry, calls, result, visitVars, typePredictionVars, configVars,
                 repeatVars, compareVars>>

NextTestCases ==
  \/ \E predictions \in AtMostOne({p \in TypePrediction :
                                      \E o \in SharedOccurrences :
                                        /\ p.identifier = o.identifier
                                        /\ p.position = o.position}),
         groundTruth \in AtMostOne({g \in GroundTruthType :
                                      \E o \in SharedOccurrences :
                                        /\ g.identifier = o.identifier
                                        /\ g.position = o.position}) :
       ProcessTestCase(predictions, groundTruth)
  \/ \E executionTime \in ExecutionTimes : Score(executionTime)

SpecTestCases == Init /\ [][NextTestCases]_vars

(***************************************************************************)
(* The same data path for one long test case: its source holds x on the    *)
(* lines 1 .. total, all numbers; the approach predicts number for the     *)
(* first correct of them and string for the others, and possibly a type    *)
(* for a y the ground truth does not list.                                 *)
(***************************************************************************)
TalliedPredictions(correct, total, unmatched) ==
  [k \in 1..total |->
     [ identifier |-> "x",
       predictedType |-> IF k <= correct THEN "number" ELSE "string",
       position |-> [line |-> k, column |-> 0] ]]
  \o [k \in 1..unmatched |->
        [ identifier |-> "y", predictedType |-> "number",
          position |-> [line |-> k, column |-> 0] ]]

TalliedGroundTruth(total) ==
  [k \in 1..total |->
     [ identifier |-> "x", actualType |-> "number",
       position |-> [line |-> k, column |-> 0] ]]

\* the loop iteration of that test case
ProcessLongTestCase(correct, total, unmatched) ==
  /\ correct <= total
  /\ ~result.scored
  /\ allPredictions = <<>> /\ allGroundTruth = <<>>
  /\ allPredictions' = allPredictions \o TalliedPredictions(correct, total, unmatched)
  /\ allGroundTruth' = allGroundTruth \o TalliedGroundTruth(total)
  /\ UNCHANGED <<registry, calls, result, visitVars, restVars>>

NextTally ==
  \/ \E executionTime \in ExecutionTimes : Score(executionTime)
  \/ \E total \in 1..MaxMatches, correct \in 0..MaxMatches, unmatched \in 0..1 :
       ProcessLongTestCase(correct, total, unmatched)

SpecTally == Init /\ [][NextTally]_vars

(***************************************************************************)
(* The same data path for one test case in which precision and recall of a *)
(* type are any two quotients with one numerator: the approach predicts    *)
(* number for the x on the lines 1 .. predicted, of which the first        *)
(* correct are numbers and the others strings; the source holds actual     *)
(* numbers in all, those after the first correct on lines the approach     *)
(* predicts nothing for.                                                   *)
(***************************************************************************)
TypedPredictions(predicted) ==
  [k \in 1..predicted |->
     [ identifier |-> "x", predictedType |-> "number",
       position |-> [line |-> k, column |-> 0] ]]

TypedGroundTruth(correct, predicted, actual) ==
  [k \in 1..(predicted + actual - correct) |->
     [ identifier |-> "x",
       actualType |-> IF k <= correct \/ k > predicted THEN "number" ELSE "string",
       position |-> [line |-> k, column |-> 0] ]]

\* the loop iteration of that test case
ProcessTypedTestCase(correct, predicted, actual) ==
  /\ correct <= predicted /\ correct <= actual /\ predicted + actual > 0
  /\ ~result.scored
  /\ allPredictions = <<>> /\ allGroundTruth = <<>>
  /\ allPredictions' = allPredictions \o TypedPredictions(predicted)
  /\ allGroundTruth' = allGroundTruth \o TypedGroundTruth(correct, predicted, actual)
  /\ UNCHANGED <<registry, calls, result, visitVars, restVars>>

NextHarmonic ==
  \/ \E executionTime \in ExecutionTimes : Score(executionTime)
  \/ \E correct \in 0..MaxTyped, predicted \in 0..MaxTyped, actual \in 0..MaxTyped :
       ProcessTypedTestCase(correct, predicted, actual)

SpecHarmonic == Init /\ [][NextHarmonic]_vars

(***************************************************************************)
(* The scope stacks under arbitrary calls of _enterScope and _exitScope.   *)
(***************************************************************************)
Scopes == {<<"class:", "C">>, <<"function:", "f">>}

RandomTypeVisitorEnterScope(scope) ==
  /\ Len(scopeStack) <= MaxScopeDepth
  /\ scopeStack' = EnterScope(scopeStack, scope)
  /\ lastCall' = [visitor |-> "RandomTypeVisitor", op |-> "enterScope", before |-> scopeStack]
  /\ UNCHANGED <<evaluatorVars, metricVars, tpScopeStack, traverseVars, restVars>>

RandomTypeVisitorExitScope ==
  /\ scopeStack' = ExitScope(scopeStack)
  /\ lastCall' = [visitor |-> "RandomTypeVisitor", op |-> "exitScope", before |-> scopeStack]
  /\ UNCHANGED <<evaluatorVars, metricVars, tpScopeStack, traverseVars, restVars>>

TypePredictionVisitorEnterScope(scope) ==
  /\ Len(tpScopeStack) <= MaxScopeDepth
  /\ tpScopeStack' = TypePredictionEnterScope(tpScopeStack, scope)
  /\ lastCall' = [visitor |-> "TypePredictionVisitor", op |-> "enterScope", before |-> tpScopeStack]
  /\ UNCHANGED <<evaluatorVars, metricVars, scopeStack, traverseVars, restVars>>

TypePredictionVisitorExitScope ==
  /\ tpScopeStack' = TypePredictionExitScope(tpScopeStack)
  /\ lastCall' = [visitor |-> "TypePredictionVisitor", op |-> "exitScope", before |-> tpScopeStack]
  /\ UNCHANGED <<evaluatorVars, metricVars, scopeStack, traverseVars, restVars>>

NextScope ==
  \/ \E scope \in Scopes : RandomTypeVisitorEnterScope(scope)
  \/ RandomTypeVisitorExitScope
  \/ \E scope \in Scopes : TypePredictionVisitorEnterScope(scope)
  \/ TypePredictionVisitorExitScope

SpecScope == Init /\ [][NextScope]_vars

(***************************************************************************)
(* RandomTypeInferenceApproach.predict: a fresh RandomTypeVisitor, the     *)
(* traversal of the source callback by callback, and the return.  A        *)
(* declaration without id is the declaration of an export default, which   *)
(* stands at the top level of the source.                                  *)
(***************************************************************************)
CanOccur(node) ==
  node.type \in {"ClassDeclaration", "FunctionDeclaration"} /\ node.name = NoName
    => open = <<>>

Predict ==
  /\ predictCall.pc # "visiting"
  /\ scopeStack' = <<Global>>
  /\ visitorPredictions' = <<>>
  /\ open' = <<>>
  /\ predictCall' = [IdleCall EXCEPT !.pc = "visiting"]
  /\ UNCHANGED <<evaluatorVars, metricVars, tpScopeStack, lastCall, restVars>>

Enter(node, maxNesting) ==
  /\ predictCall.pc = "visiting"
  /\ Len(open) < maxNesting
  /\ CanOccur(node)
  /\ scopeStack' = NodeEnter(scopeStack, node)
  /\ open' = Append(open, [node |-> node, before |-> scopeStack])
  /\ UNCHANGED <<evaluatorVars, metricVars, tpScopeStack, lastCall, visitorPredictions, predictCall, restVars>>

Exit ==
  /\ predictCall.pc = "visiting"
  /\ open # <<>>
  /\ scopeStack' = NodeExit(scopeStack, open[Len(open)].node)
  /\ open' = SubSeq(open, 1, Len(open) - 1)
  /\ UNCHANGED <<evaluatorVars, metricVars, tpScopeStack, lastCall, visitorPredictions, predictCall, restVars>>

Identifier(identifier, skipped, make, type) ==
  /\ predictCall.pc = "visiting"
  /\ Len(visitorPredictions) < MaxIdentifiers
  /\ visitorPredictions' = IdentifierVisit(visitorPredictions, scopeStack, identifier, skipped, make, type)
  /\ UNCHANGED <<evaluatorVars, metricVars, scopeVars, open, predictCall, restVars>>

VisitThrows ==
  /\ predictCall.pc = "visiting"
  /\ predictCall' = PredictCatch(predictCall, visitorPredictions)
  /\ UNCHANGED <<evaluatorVars, metricVars, scopeVars, open, visitorPredictions, restVars>>

VisitReturns ==
  /\ predictCall.pc = "visiting"
  /\ open = <<>>
  /\ predictCall' = PredictReturn(predictCall, visitorPredictions)
  /\ UNCHANGED <<evaluatorVars, metricVars, scopeVars, open, visitorPredictions, restVars>>

NextTraverse ==
  \/ Predict
  \/ \E node \in StructuralNodes : Enter(node, MaxNesting)
  \/ Exit
  \/ VisitReturns

SpecTraverse == Init /\ [][NextTraverse]_vars

\* the identifier the traversal comes to next: one prediction per line
NextIdentifier ==
  [name |-> "x", position |-> [line |-> Len(visitorPredictions) + 1, column |-> 0]]

PredictNodes ==
  { node \in StructuralNodes :
      \/ node.type = "FunctionDeclaration" /\ node.name # NoName
      \/ node.type = "ArrowFunctionExpression" }

NextPredict ==
  \/ Predict
  \/ \E node \in PredictNodes : Enter(node, MaxPredictNesting)
  \/ Exit
  \/ \E skipped \in BOOLEAN, make \in BOOLEAN, type \in Types :
       Identifier(NextIdentifier, skipped, make, type)
  \/ VisitThrows
  \/ VisitReturns

SpecPredict == Init /\ [][NextPredict]_vars

(***************************************************************************)
(* initialize(config) of RandomTypeInferenceApproach.  A configuration     *)
(* holds any of the two recognized keys, with a value of the expected or   *)
(* of another type, and possibly a key the approach does not know.         *)
(***************************************************************************)
Configs ==
  [ availableTypes : {Undefined, ArrayOf(<<"number">>), ArrayOf(<<"number", "string">>),
                     String(<<"x">>), String(<<>>)},
    randomTypeProbability :
      {Undefined, Number(Fraction(0, 1)), Number(Fraction(1, 2)), Number(Fraction(1, 1)),
       String(<<"x">>)},
    other : {Undefined, String(<<"x">>)} ]

Initialize(config) ==
  /\ availableTypes' = InitializeAvailableTypes(availableTypes, config)
  /\ randomTypeProbability' = InitializeRandomTypeProbability(randomTypeProbability, config)
  /\ lastInitialize' =
       [ called |-> TRUE, config |-> config,
         before |-> [ availableTypes |-> availableTypes,
                      randomTypeProbability |-> randomTypeProbability ] ]
  /\ UNCHANGED <<evaluatorVars, metricVars, visitVars,
                 typePredictionVars, repeatVars, caseVars, compareVars>>

NextConfigure == \E config \in Configs : Initialize(config)

SpecConfigure == Init /\ [][NextConfigure]_vars

(***************************************************************************)
(* Repeated predict calls on one source after one initialize.              *)
(***************************************************************************)
SourceNode == [type |-> "FunctionDeclaration", name |-> "f"]

Events ==
  { [kind |-> "enter", node |-> SourceNode, skipped |-> FALSE],
    [kind |-> "exit", node |-> SourceNode, skipped |-> FALSE],
    [kind |-> "identifier", node |-> SourceNode, skipped |-> FALSE],
    [kind |-> "identifier", node |-> SourceNode, skipped |-> TRUE] }

\* nesting depth after the first k events, -1 once an exit had no enter
RECURSIVE DepthAfter(_, _)
DepthAfter(src, k) ==
  IF k = 0 THEN 0
  ELSE LET before == DepthAfter(src, k - 1)
       IN  IF before < 0 THEN -1
           ELSE IF src[k].kind = "enter" THEN before + 1
           ELSE IF src[k].kind = "exit" THEN before - 1
           ELSE before

Sources ==
  { src \in UNION { [1..n -> Events] : n \in 0..MaxSourceLength } :
      DepthAfter(src, Len(src)) = 0 }

\* the configurations the client of SpecRepeat initializes the approach with
RepeatConfigs ==
  { config \in
      [ availableTypes : {ArrayOf(<<"number">>), ArrayOf(<<"number", "string">>)},
        randomTypeProbability :
          {Number(Fraction(0, 1)), Number(Fraction(1, 2)), Number(Fraction(1, 1))},
        other : {Undefined} ] :
      Len(config.availableTypes.items) = 1 \/ config.randomTypeProbability.num.den = 1 }

\* the outcomes the generator can deliver to the callbacks of a traversal
NoDraw == [make |-> FALSE, type |-> ""]

DrawsFor(event) ==
  IF event.kind = "identifier" /\ ~event.skipped
    THEN [make : NextBoolean(randomTypeProbability), type : PickOne(availableTypes)]
    ELSE {NoDraw}

RECURSIVE DrawsUpTo(_, _)
DrawsUpTo(src, k) ==
  IF k = 0 THEN {<<>>}
  ELSE {Append(draws, draw) : draws \in DrawsUpTo(src, k - 1), draw \in DrawsFor(src[k])}

Draws(src) == DrawsUpTo(src, Len(src))

LoadSource(src) ==
  /\ runs = <<>>
  /\ source' = src
  /\ UNCHANGED <<evaluatorVars, metricVars, visitVars, typePredictionVars,
                 configVars, runs, caseVars, compareVars>>

InitializeOnce(config) ==
  /\ runs = <<>>
  /\ ~lastInitialize.called
  /\ Initialize(config)

PredictSource ==
  /\ lastInitialize.called
  /\ Len(runs) < MaxRuns
  /\ \E draws \in Draws(source) :
     LET visitor == Visit([scopeStack |-> scopeStack, predictions |-> visitorPredictions],
                          source, draws)
     IN  /\ scopeStack' = visitor.scopeStack
         /\ visitorPredictions' = visitor.predictions
         /\ predictCall' = PredictReturn(predictCall, visitor.predictions)
         /\ runs' = Append(runs, visitor.predictions)
  /\ UNCHANGED <<evaluatorVars, metricVars, tpScopeStack, lastCall, open,
                 typePredictionVars, configVars, source, caseVars, compareVars>>

NextRepeat ==
  \/ \E src \in Sources : LoadSource(src)
  \/ \E config \in RepeatConfigs : InitializeOnce(config)
  \/ PredictSource

SpecRepeat == Init /\ [][NextRepeat]_vars

(***************************************************************************)
(* traverse(ast, visitor) with a new TypePredictionVisitor: the enter and  *)
(* exit callbacks of the structural nodes in traversal order.              *)
(***************************************************************************)
TypePredictionCanOccur(node) ==
  node.type \in {"ClassDeclaration", "FunctionDeclaration"} /\ node.name = NoName
    => tpOpen = <<>>

TypePredictionEnter(node) ==
  /\ Len(tpOpen) < MaxTypePredictionNesting
  /\ TypePredictionCanOccur(node)
  /\ tpScopeStack' = TypePredictionNodeEnter(tpScopeStack, node)
  /\ tpOpen' = Append(tpOpen, [node |-> node, before |-> tpScopeStack])
  /\ UNCHANGED <<evaluatorVars, metricVars, scopeStack, lastCall, traverseVars,
                 configVars, repeatVars, caseVars, compareVars>>

TypePredictionExit ==
  /\ tpOpen # <<>>
  /\ tpScopeStack' = TypePredictionNodeExit(tpScopeStack, tpOpen[Len(tpOpen)].node)
  /\ tpOpen' = SubSeq(tpOpen, 1, Len(tpOpen) - 1)
  /\ UNCHANGED <<evaluatorVars, metricVars, scopeStack, lastCall, traverseVars,
                 configVars, repeatVars, caseVars, compareVars>>

NextTypePrediction ==
  \/ \E node \in StructuralNodes : TypePredictionEnter(node)
  \/ TypePredictionExit

SpecTypePrediction == Init /\ [][NextTypePrediction]_vars

(***************************************************************************)
(* compareResults.  The mapping it is handed is a sequence of entries      *)
(* [key, val] in insertion order; of an EvaluationResult only the fields   *)
(* compareResults reads are kept.                                          *)
(***************************************************************************)
ComparedNames == {"a", "b", "c"}

\* the results generateEvaluationResult can build: accuracy is
\* correctPredictions over totalPredictions, 0 when there is no match
EvaluationResults ==
  LET outcomes == {x \in (0..MaxPredictions) \X (0..MaxPredictions) \X ExecutionTimes :
                     x[1] <= x[2]}
  IN  { [ accuracy |-> IF x[2] > 0 THEN Fraction(x[1], x[2]) ELSE Zero,
          executionTime |-> x[3],
          correctPredictions |-> x[1],
          totalPredictions |-> x[2] ] : x \in outcomes }

\* [...results.entries()].map(([approach, result]) => ({...}))
ComparisonRows(results) ==
  [k \in 1..Len(results) |->
     [ approach |-> results[k].key,
       accuracy |-> results[k].val.accuracy,
       executionTime |-> results[k].val.executionTime,
       correctPredictions |-> results[k].val.correctPredictions,
       totalPredictions |-> results[k].val.totalPredictions ]]

\* the loop's first test, from row k on: a strictly greater accuracy wins
RECURSIVE SelectBestAccuracy(_, _, _)
SelectBestAccuracy(rows, k, bestAccuracy) ==
  IF k > Len(rows) THEN bestAccuracy
  ELSE SelectBestAccuracy(rows, k + 1,
         IF ~FracLeq(rows[k].accuracy, bestAccuracy.score)
           THEN [approach |-> rows[k].approach, score |-> rows[k].accuracy]
           ELSE bestAccuracy)

\* the loop's second test, from row k on: a strictly smaller time wins, and
\* every time is smaller than Number.POSITIVE_INFINITY
RECURSIVE SelectFastestExecution(_, _, _)
SelectFastestExecution(rows, k, fastestExecution) ==
  IF k > Len(rows) THEN fastestExecution
  ELSE SelectFastestExecution(rows, k + 1,
         IF fastestExecution.infinite \/ rows[k].executionTime < fastestExecution.time
           THEN [approach |-> rows[k].approach, infinite |-> FALSE,
                 time |-> rows[k].executionTime]
           ELSE fastestExecution)

\* Array.prototype.sort with (a, b) => b.accuracy - a.accuracy: descending
\* accuracy, rows of equal accuracy keep their order
RECURSIVE InsertByAccuracy(_, _)
InsertByAccuracy(sorted, row) ==
  IF sorted = <<>> THEN <<row>>
  ELSE IF FracLeq(row.accuracy, Head(sorted).accuracy)
    THEN <<Head(sorted)>> \o InsertByAccuracy(Tail(sorted), row)
    ELSE <<row>> \o sorted

RECURSIVE SortByAccuracy(_)
SortByAccuracy(rows) ==
  IF rows = <<>> THEN <<>>
  ELSE InsertByAccuracy(SortByAccuracy(SubSeq(rows, 1, Len(rows) - 1)), rows[Len(rows)])

\* TotalTestCases read from the list after it was sorted
TotalTestCases_AfterSort(rows) ==
  IF Len(rows) > 0 THEN SortByAccuracy(rows)[1].totalPredictions ELSE 0

\* comparison.length > 0 ? comparison[0].totalPredictions : 0, read before
\* the list is sorted
TotalTestCases(rows) ==
  IF Len(rows) > 0 THEN rows[1].totalPredictions ELSE 0

CompareResults(results) ==
  LET rows == ComparisonRows(results)
  IN  [ compared |-> TRUE,
        bestAccuracy |-> SelectBestAccuracy(rows, 1, NoComparison.bestAccuracy),
        fastestExecution |-> SelectFastestExecution(rows, 1, NoComparison.fastestExecution),
        totalTestCases |-> TotalTestCases(rows),
        detailedComparison |-> SortByAccuracy(rows) ]

\* the caller puts the result of one more approach into the mapping
SetResult(name, evaluationResult) ==
  /\ ~comparison.compared
  /\ \A k \in 1..Len(resultMap) : resultMap[k].key # name
  /\ resultMap' = Append(resultMap, [key |-> name, val |-> evaluationResult])
  /\ UNCHANGED <<evaluatorVars, metricVars, visitVars, typePredictionVars, configVars,
                 repeatVars, caseVars, comparison>>

\* compareResults(results)
Compare ==
  /\ ~comparison.compared
  /\ comparison' = CompareResults(resultMap)
  /\ UNCHANGED <<evaluatorVars, metricVars, visitVars, typePredictionVars, configVars,
                 repeatVars, caseVars, resultMap>>

NextCompare ==
  \/ \E name \in ComparedNames, evaluationResult \in EvaluationResults :
       SetResult(name, evaluationResult)
  \/ Compare

SpecCompare == Init /\ [][NextCompare]_vars

(***************************************************************************)
(* The evaluator's lifecycle properties                                    *)
(***************************************************************************)
\* the calls of evaluation e of an invocation, in program order
Segment(log, e) == SelectSeq(log, LAMBDA x : x.ev = e)

Count(log, e, op, ph) ==
  Cardinality({k \in 1..Len(log) : log[k].ev = e /\ log[k].op = op /\ log[k].ph = ph})

\* evaluation e of an invocation met a failure of initialize, predict,
\* scoring or dispose
Failed(log, e) == \E k \in 1..Len(log) : log[k].ev = e /\ log[k].ph = "fail"

\* calls issued and not yet settled among the first j entries of a log
Outstanding(log, j) ==
  Cardinality({k \in 1..j : IsStart(log[k])}) - Cardinality({k \in 1..j : IsEnd(log[k])})

NameOf(id) == (CHOOSE a \in Approaches : a.id = id).name

\* an approach call of the invocation in slot s is suspended at its await
InFlight(s) == calls[s].pc \in {"initialize", "predict", "dispose"}

\* C1: when predict fails for a test case, dispose is invoked on the same
\* approach after the failure, and it has settled by the time the
\* evaluation settles.
C1_DisposeAfterPredictFailure ==
  \A s \in Slots : \A k \in 1..Len(calls[s].log) :
    LET log == calls[s].log
        e == log[k]
    IN  (e.op = "predict" /\ e.ph = "fail") =>
          /\ \E j \in (k + 1)..Len(log) :
               /\ log[j].op = "dispose" /\ log[j].ph = "start"
               /\ log[j].obj = e.obj /\ log[j].ev = e.ev
          /\ Len(calls[s].evals) >= e.ev =>
               \E j \in (k + 1)..Len(log) :
                 /\ log[j].op = "dispose" /\ IsEnd(log[j])
                 /\ log[j].obj = e.obj /\ log[j].ev = e.ev

C1_Witness ==
  \E s \in Slots :
    /\ calls[s].kind = "approach" /\ calls[s].pc = "done"
    /\ calls[s].error = "predict"
    /\ calls[s].n = MaxTestCases

\* C2 as stated: every settled evaluation of a registered approach has
\* invoked initialize exactly once and dispose exactly once.
C2_Original ==
  \A s \in Slots : \A e \in 1..Len(calls[s].evals) :
    calls[s].evals[e].error # "notRegistered" =>
      /\ Count(calls[s].log, e, "initialize", "start") = 1
      /\ Count(calls[s].log, e, "dispose", "start") = 1

\* C2 (amended): every settled evaluation of a registered approach has
\* invoked initialize exactly once; it has invoked dispose exactly once when
\* initialize completed, and not at all when initialize rejected.
C2_InitializeOnceDisposeOnceIfInitialized ==
  \A s \in Slots : \A e \in 1..Len(calls[s].evals) :
    calls[s].evals[e].error # "notRegistered" =>
      /\ Count(calls[s].log, e, "initialize", "start") = 1
      /\ Count(calls[s].log, e, "dispose", "start") =
           IF Count(calls[s].log, e, "initialize", "fail") = 1 THEN 0 ELSE 1

C2_Witness ==
  \E s \in Slots :
    /\ calls[s].kind = "approach" /\ calls[s].pc = "done"
    /\ calls[s].error = "initialize"

\* C3: evaluateApproach with an unregistered name rejects with the
\* not-registered error, calls no approach, and leaves the registry and the
\* other invocations (their result mappings included) as they were.
C3_UnregisteredNoSideEffects ==
  [][\A s \in Slots :
       ( /\ calls'[s] # calls[s]
         /\ CanStart(s)
         /\ calls'[s].kind = "approach"
         /\ ~Has(registry, calls'[s].name) )
       => /\ calls'[s].pc = "done"
          /\ calls'[s].outcome = "rejected"
          /\ calls'[s].error = "notRegistered"
          /\ calls'[s].log = <<>>
          /\ registry' = registry
          /\ \A t \in Slots \ {s} : calls'[t] = calls[t]]_vars

C3_Witness ==
  \E s, t \in Slots :
    /\ t < s
    /\ calls[s].kind = "approach" /\ calls[s].error = "notRegistered"
    /\ calls[s].name = Nonexistent
    /\ calls[t].kind = "all" /\ calls[t].pc = "done" /\ calls[t].results # <<>>

\* the names of the evaluations of an invocation that met no failure
RECURSIVE Unfailed(_, _)
Unfailed(c, e) ==
  IF e = 0 THEN <<>>
  ELSE IF Failed(c.log, e)
         THEN Unfailed(c, e - 1)
         ELSE Append(Unfailed(c, e - 1), c.evals[e].name)

\* C4: when evaluateAllApproaches settles it resolves, every registered
\* approach has been evaluated, and the mapping holds exactly the approaches
\* whose evaluation met no failure.
C4_FailuresExcludedNotFatal ==
  [][\A s \in Slots :
       (calls'[s] # calls[s] /\ calls'[s].kind = "all" /\ calls'[s].pc = "done")
       => /\ calls'[s].outcome = "resolved"
          /\ [e \in 1..Len(calls'[s].evals) |-> calls'[s].evals[e].name] = Keys(registry')
          /\ calls'[s].results = Unfailed(calls'[s], Len(calls'[s].evals))]_vars

C4_Witness ==
  \E s \in Slots :
    /\ calls[s].kind = "all" /\ calls[s].pc = "done"
    /\ Len(calls[s].evals) = 2
    /\ calls[s].evals[1].error = "predict"
    /\ calls[s].evals[2].error = "none"
    /\ calls[s].results = <<calls[s].evals[2].name>>

\* the calls of a successful evaluation of approach obj over n test cases
RECURSIVE Predicts(_)
Predicts(n) ==
  IF n = 0 THEN <<>>
  ELSE Predicts(n - 1) \o << <<"predict", "start", n>>, <<"predict", "ok", n>> >>

Lifecycle(n) ==
  << <<"initialize", "start", 0>>, <<"initialize", "ok", 0>> >>
  \o Predicts(n)
  \o << <<"score", "ok", 0>>, <<"dispose", "start", 0>>, <<"dispose", "ok", 0>> >>

Shape(seg) ==
  [k \in 1..Len(seg) |->
     <<seg[k].op, seg[k].ph, IF seg[k].op = "predict" THEN seg[k].tc ELSE 0>>]

\* C5: a successful evaluation consists of initialize, one predict per test
\* case in test-case order, scoring and dispose, each call issued only after
\* the one before it has completed, all on the approach that was looked up.
C5_LifecycleOrder ==
  \A s \in Slots : \A e \in 1..Len(calls[s].evals) :
    calls[s].evals[e].error = "none" =>
      LET seg == Segment(calls[s].log, e)
      IN  /\ Shape(seg) = Lifecycle(calls[s].n)
          /\ \A k \in 1..Len(seg) : NameOf(seg[k].obj) = calls[s].evals[e].name

C5_Witness ==
  \E s \in Slots :
    /\ calls[s].kind = "approach" /\ calls[s].pc = "done"
    /\ calls[s].outcome = "resolved"
    /\ calls[s].n = MaxTestCases

\* C6: evaluateAllApproaches takes the approaches in registration order and
\* a call on one approach is issued only after every call on the approaches
\* before it has completed.
C6_SequentialInRegistrationOrder ==
  \A s \in Slots :
    calls[s].kind = "all" =>
      LET log == calls[s].log
      IN  /\ \A k \in 1..Len(log) :
               /\ log[k].ev <= Len(registry)
               /\ NameOf(log[k].obj) = Keys(registry)[log[k].ev]
          /\ \A j, k \in 1..Len(log) :
               (j < k /\ log[j].ev # log[k].ev) =>
                 /\ log[j].ev < log[k].ev
                 /\ IsStart(log[j]) =>
                      \E m \in (j + 1)..(k - 1) :
                        /\ IsEnd(log[m]) /\ log[m].ev = log[j].ev
                        /\ log[m].op = log[j].op /\ log[m].tc = log[j].tc

C6_Witness ==
  \E s \in Slots :
    /\ calls[s].kind = "all" /\ calls[s].pc = "done"
    /\ \E j, k \in 1..Len(calls[s].log) :
         /\ calls[s].log[j].obj = "b1" /\ calls[s].log[k].obj = "a2"
         /\ j < k /\ calls[s].log[k].op = "predict"

\* C7 as stated: no two calls are outstanding on the same approach at the
\* same time, however the client uses the evaluator.
C7_Original ==
  \A s, t \in Slots :
    (s # t /\ InFlight(s) /\ InFlight(t)) => calls[s].approach.id # calls[t].approach.id

\* C7 (amended): the calls issued by one invocation of evaluateApproach or
\* evaluateAllApproaches are never outstanding two at a time; invocations
\* that overlap are not serialized against each other.
C7_OneOutstandingPerInvocation ==
  \A s \in Slots : \A j \in 0..Len(calls[s].log) :
    /\ Outstanding(calls[s].log, j) \in {0, 1}
    /\ (j = Len(calls[s].log)) =>
         (Outstanding(calls[s].log, j) = IF InFlight(s) THEN 1 ELSE 0)

C7_Witness ==
  \E s, t \in Slots :
    /\ s # t
    /\ calls[s].pc = "predict" /\ calls[t].pc = "initialize"
    /\ calls[s].approach.id = calls[t].approach.id

(***************************************************************************)
(* Properties of the metrics                                               *)
(***************************************************************************)
\* the match list of the collected predictions and ground truth
Matches == GetMatches(allPredictions, allGroundTruth)

InUnitInterval(f) == f.den > 0 /\ 0 <= f.num /\ f.num <= f.den

\* C8: accuracy is the number of correct matches over the number of
\* matches, 0 when there is no match, and lies between 0 and 1.
C8_AccuracyIsCorrectOverMatches ==
  result.scored =>
    LET total == Len(Matches)
        correct == Cardinality({k \in 1..total : Matches[k].correct})
    IN  /\ total = 0 => result.accuracy.num = 0
        /\ total > 0 => result.accuracy.num * total = correct * result.accuracy.den
        /\ InUnitInterval(result.accuracy)

C8_Witness ==
  /\ result.scored
  /\ Len(allPredictions) = 2
  /\ Len(Matches) = 1
  /\ result.accuracy.num = 1

\* C9 as stated: every per-type precision and every per-type recall lies
\* between 0 and 1.
C9_Original ==
  result.scored =>
    /\ \A k \in 1..Len(result.precisionByType) : InUnitInterval(result.precisionByType[k].val)
    /\ \A k \in 1..Len(result.recallByType) : InUnitInterval(result.recallByType[k].val)

\* C10 as stated: no ground-truth entry appears in more than one Match.
C10_Original ==
  result.scored =>
    \A j, k \in 1..Len(Matches) :
      j # k => Matches[j].groundTruth # Matches[k].groundTruth

\* C11: a Match pairs a prediction with a ground-truth entry of the same
\* identifier, line and column, and is correct exactly when the predicted
\* type equals the actual type; two predictions of one name at different
\* positions never match the same ground-truth entry.
C11_MatchOnIdentifierLineColumn ==
  /\ \A k \in 1..Len(Matches) :
       LET prediction == allPredictions[Matches[k].prediction]
           truth == allGroundTruth[Matches[k].groundTruth]
       IN  /\ prediction.identifier = truth.identifier
           /\ prediction.position.line = truth.position.line
           /\ prediction.position.column = truth.position.column
           /\ Matches[k].correct <=> (prediction.predictedType = truth.actualType)
  /\ \A j, k \in 1..Len(Matches) :
       LET p == allPredictions[Matches[j].prediction]
           q == allPredictions[Matches[k].prediction]
       IN  p.identifier = q.identifier /\ p.position # q.position
             => Matches[j].groundTruth # Matches[k].groundTruth

C11_Witness ==
  /\ result.scored
  /\ Len(Matches) = 1
  /\ \E j, k \in 1..Len(allPredictions) :
       /\ allPredictions[j].identifier = allPredictions[k].identifier
       /\ allPredictions[j].position # allPredictions[k].position
  /\ \E g \in 1..Len(allGroundTruth) :
       /\ \A k \in 1..Len(Matches) : Matches[k].groundTruth # g
       /\ \E k \in 1..Len(allPredictions) :
            allPredictions[k].identifier = allGroundTruth[g].identifier

\* the predictions that have a ground-truth entry of their identifier, line
\* and column
Matched(predictions, groundTruth) ==
  SelectSeq(predictions, LAMBDA p :
    \E g \in 1..Len(groundTruth) :
      /\ groundTruth[g].identifier = p.identifier
      /\ groundTruth[g].position = p.position)

\* C12: the predictions without a ground-truth entry of their identifier,
\* line and column change no scored total: the result equals, in accuracy,
\* per-type precision, recall and F1, totalPredictions and
\* correctPredictions, the result of scoring without them.
C12_UnmatchedPredictionsNotScored ==
  result.scored =>
    LET without == GenerateEvaluationResult(result.approachName,
                     Matched(allPredictions, allGroundTruth), allGroundTruth,
                     result.executionTime)
    IN  /\ result.accuracy = without.accuracy
        /\ result.precisionByType = without.precisionByType
        /\ result.recallByType = without.recallByType
        /\ result.f1ScoreByType = without.f1ScoreByType
        /\ result.totalPredictions = without.totalPredictions
        /\ result.correctPredictions = without.correctPredictions

C12_Witness ==
  /\ result.scored
  /\ Len(Matched(allPredictions, allGroundTruth)) = 1
  /\ Len(allPredictions) = 2
  /\ result.correctPredictions = 1

\* C13: the recall mapping has an entry for exactly the actual types of the
\* ground truth, and the recall of a type is the number of correct matches
\* of that actual type over the number of ground-truth entries of that
\* type, matched or not.
C13_RecallOverGroundTruthEntries ==
  result.scored =>
    LET recall == result.recallByType
        actualTypes == {allGroundTruth[g].actualType : g \in 1..Len(allGroundTruth)}
    IN  /\ {recall[k].key : k \in 1..Len(recall)} = actualTypes
        /\ Len(recall) = Cardinality(actualTypes)
        /\ \A k \in 1..Len(recall) :
             LET entries == {g \in 1..Len(allGroundTruth) :
                               allGroundTruth[g].actualType = recall[k].key}
                 correct == {m \in 1..Len(Matches) :
                               Matches[m].correct /\ Matches[m].actualType = recall[k].key}
             IN  /\ recall[k].val.den > 0
                 /\ recall[k].val.num * Cardinality(entries)
                      = Cardinality(correct) * recall[k].val.den

C13_Witness ==
  /\ result.scored
  /\ \E k \in 1..Len(result.recallByType) :
       /\ result.recallByType[k].val.num = 1
       /\ result.recallByType[k].val.den = 2
  /\ \E g \in 1..Len(allGroundTruth) :
       \A m \in 1..Len(Matches) : Matches[m].groundTruth # g

\* C14: the precision mapping has an entry for exactly the predicted types
\* of the matches, and the precision of a type is the number of correct
\* matches predicted as that type over the number of matches predicted as
\* that type.
C14_PrecisionOverMatchedPredictions ==
  result.scored =>
    LET precision == result.precisionByType
        predictedTypes == {Matches[m].predictedType : m \in 1..Len(Matches)}
    IN  /\ {precision[k].key : k \in 1..Len(precision)} = predictedTypes
        /\ Len(precision) = Cardinality(predictedTypes)
        /\ \A k \in 1..Len(precision) :
             LET predicted == {m \in 1..Len(Matches) :
                                 Matches[m].predictedType = precision[k].key}
                 correct == {m \in predicted : Matches[m].correct}
             IN  /\ precision[k].val.den > 0
                 /\ precision[k].val.num * Cardinality(predicted)
                      = Cardinality(correct) * precision[k].val.den

C14_Witness ==
  /\ result.scored
  /\ \E k \in 1..Len(result.precisionByType), p \in 1..Len(allPredictions) :
       /\ result.precisionByType[k].val = Fraction(1, 1)
       /\ allPredictions[p].predictedType = result.precisionByType[k].key
       /\ \A m \in 1..Len(Matches) : Matches[m].prediction # p

KeysOf(m) == {m[k].key : k \in 1..Len(m)}

\* the entry of a type in a per-type mapping, Zero or ZeroDouble when there
\* is none
Entry(m, type, none) ==
  IF type \in KeysOf(m) THEN (CHOOSE e \in {m[k] : k \in 1..Len(m)} : e.key = type).val
  ELSE none

\* the double nearest to 2PR / (P + R) for the quotients P and R, P + R > 0
HarmonicMean(P, R) ==
  DoubleDivide(2 * P.num * R.num, P.num * R.den + R.num * P.den)

\* (P + R) / 2 on the doubles of P and R; halving is exact
ArithmeticMean(P, R) ==
  LET sum == DoubleSum(Double(P), Double(R))
  IN  IF sum.zero THEN sum ELSE [sum EXCEPT !.exp = @ - 1]

\* the double next above x > 0
Successor(x) == Rounded(x.bits, x.exp, 1)

\* x and the k doubles next above it
RECURSIVE Above(_, _)
Above(x, k) == IF k = 0 THEN {x} ELSE {x} \cup Above(Successor(x), k - 1)

\* x and y are no more than k units in the last place apart
Within(x, y, k) ==
  IF x.zero \/ y.zero THEN x = y ELSE x \in Above(y, k) \/ y \in Above(x, k)

\* what C15 and its amendment share: the F1 mapping has an entry for
\* exactly the types that have a precision or a recall entry, and the F1 of
\* a type whose precision and recall are both 0 or missing is 0
F1OverUnionOfTypes ==
  LET f1 == result.f1ScoreByType
      types == KeysOf(result.precisionByType) \cup KeysOf(result.recallByType)
  IN  /\ KeysOf(f1) = types
      /\ Len(f1) = Cardinality(types)
      /\ \A k \in 1..Len(f1) :
           /\ Entry(result.precisionByType, f1[k].key, Zero).num = 0
           /\ Entry(result.recallByType, f1[k].key, Zero).num = 0
           => f1[k].val = ZeroDouble

\* C15 as stated: the F1 mapping is over the union of the types, and the F1
\* of a type is the number 2PR / (P + R) when P + R > 0, which is not the
\* arithmetic mean whenever P and R differ.
C15_Original ==
  result.scored =>
    /\ F1OverUnionOfTypes
    /\ \A k \in 1..Len(result.f1ScoreByType) :
         LET P == Entry(result.precisionByType, result.f1ScoreByType[k].key, Zero)
             R == Entry(result.recallByType, result.f1ScoreByType[k].key, Zero)
             F == result.f1ScoreByType[k].val
         IN  /\ P.num + R.num > 0 => F = HarmonicMean(P, R)
             /\ ~FracEq(P, R) => F # ArithmeticMean(P, R)

\* C15 amended: the F1 mapping is over the union of the types; the F1 of a
\* type is 0 when P + R = 0 and otherwise what (2 * P * R) / (P + R) yields
\* on the doubles P and R with the product, the sum and the quotient each
\* rounded to nearest; that is within 4 units in the last place of the
\* double nearest to 2PR / (P + R), and it is not the arithmetic mean
\* whenever P and R differ and are quotients of counts below 4096.
C15_F1UpToRounding ==
  result.scored =>
    /\ F1OverUnionOfTypes
    /\ \A k \in 1..Len(result.f1ScoreByType) :
         LET P == Entry(result.precisionByType, result.f1ScoreByType[k].key, Zero)
             R == Entry(result.recallByType, result.f1ScoreByType[k].key, Zero)
             F == result.f1ScoreByType[k].val
         IN  /\ P.num + R.num > 0 =>
                  /\ F = DoubleQuotient(DoubleProduct(Twice(Double(P)), Double(R)),
                                        DoubleSum(Double(P), Double(R)))
                  /\ Within(F, HarmonicMean(P, R), 4)
             /\ /\ ~FracEq(P, R)
                /\ \A count \in {P.num, P.den, R.num, R.den} : count < 4096
                => F # ArithmeticMean(P, R)

\* 2 correct of 3 predicted numbers and 4 actual numbers: precision 2/3 and
\* recall 1/2 give the F1 0.5714285714285715, one unit in the last place
\* above the double nearest to 4/7; the type string has a recall entry and
\* no precision entry, and its F1 is 0
C15_Witness ==
  /\ result.scored
  /\ Entry(result.precisionByType, "number", Zero) = Fraction(2, 3)
  /\ Entry(result.recallByType, "number", Zero) = Fraction(2, 4)
  /\ Entry(result.f1ScoreByType, "number", ZeroDouble) = Successor(DoubleDivide(4, 7))
  /\ "string" \in KeysOf(result.recallByType) \ KeysOf(result.precisionByType)
  /\ Entry(result.f1ScoreByType, "string", ZeroDouble) = ZeroDouble

\* the double an integer count is
DoubleOf(k) ==
  IF k = 0 THEN ZeroDouble
  ELSE LET digits == Binary(k)
       IN  [ zero |-> FALSE,
             bits |-> digits \o [j \in 1..(Precision - Len(digits)) |-> 0],
             exp |-> Len(digits) - 1 ]

\* x * n as JavaScript computes it for a double x and a count n: the exact
\* product rounded to a double
DoubleTimes(x, n) ==
  IF x.zero \/ n = 0 THEN ZeroDouble
  ELSE LET product == TimesBits(x.bits, n, 0, <<>>)
           extra == Len(product) - Precision
           cut == SubSeq(product, Precision + 1, Len(product))
           discarded ==
             IF extra = 0 \/ cut[1] = 0 THEN -1
             ELSE IF \E j \in 2..extra : cut[j] = 1 THEN 1 ELSE 0
       IN  Rounded(SubSeq(product, 1, Precision), x.exp + extra, discarded)

\* the quotient correct / total has no more than Precision binary digits
ExactQuotient(correct, total) ==
  \/ correct = 0
  \/ LET n == Normalized(correct, total, 0)
     IN  LongDivision(<<1>>, n.num - n.den, n.den).rem = 0

\* what C16 and its amendment share: totalPredictions is the number of
\* matches and correctPredictions the number of correct matches, so that
\* correctPredictions <= totalPredictions <= the length of the predictions
\* list
TotalsCountMatches ==
  /\ result.totalPredictions = Len(Matches)
  /\ result.correctPredictions =
       Cardinality({m \in 1..Len(Matches) : Matches[m].correct})
  /\ result.correctPredictions <= result.totalPredictions
  /\ result.totalPredictions <= Len(result.predictions)
  /\ result.predictions = allPredictions

\* C16 as stated: the totals count the matches, and accuracy *
\* totalPredictions, computed on the number accuracy is, equals
\* correctPredictions.
C16_Original ==
  result.scored =>
    /\ TotalsCountMatches
    /\ DoubleTimes(Double(result.accuracy), result.totalPredictions)
         = DoubleOf(result.correctPredictions)

\* C16 amended: the totals count the matches; accuracy is the quotient
\* correctPredictions / totalPredictions rounded to a double, 0 without a
\* match; accuracy * totalPredictions equals correctPredictions whenever
\* that quotient needs no rounding.
C16_TotalsCountMatches ==
  result.scored =>
    /\ TotalsCountMatches
    /\ Double(result.accuracy) =
         IF result.totalPredictions > 0
           THEN DoubleDivide(result.correctPredictions, result.totalPredictions)
           ELSE ZeroDouble
    /\ result.totalPredictions > 0
         /\ ExactQuotient(result.correctPredictions, result.totalPredictions)
         => DoubleTimes(Double(result.accuracy), result.totalPredictions)
              = DoubleOf(result.correctPredictions)

\* 3 correct matches of 12 and a prediction without a match: accuracy is
\* 0.25 and the product gives 3 back
C16_Witness ==
  /\ result.scored
  /\ result.correctPredictions = 3
  /\ result.totalPredictions = 12
  /\ Len(result.predictions) = 13
  /\ Double(result.accuracy) = [DoubleOf(1) EXCEPT !.exp = -2]
  /\ DoubleTimes(Double(result.accuracy), 12) = DoubleOf(3)

(***************************************************************************)
(* Properties of the scope tracking                                        *)
(***************************************************************************)
\* the stack of the visitor a call was made on
StackOf(visitor) ==
  IF visitor = "RandomTypeVisitor" THEN scopeStack ELSE tpScopeStack

\* C17: after any sequence of _enterScope and _exitScope calls, balanced or
\* not, the scope stack of either visitor has at least one element and the
\* root scope "global" at the bottom; _exitScope on the stack that holds
\* only the root leaves it unchanged.
C17_RootScopeNeverPopped ==
  /\ Len(scopeStack) >= 1 /\ scopeStack[1] = Global
  /\ Len(tpScopeStack) >= 1 /\ tpScopeStack[1] = Global
  /\ lastCall.op = "exitScope" /\ lastCall.before = <<Global>>
       => StackOf(lastCall.visitor) = <<Global>>

C17_Witness ==
  /\ lastCall.visitor = "RandomTypeVisitor"
  /\ lastCall.op = "exitScope"
  /\ lastCall.before = <<Global>>
  /\ scopeStack = <<Global>>
  /\ Len(tpScopeStack) > 1

\* C18 as stated: the enter callback of every structural node pushes
\* exactly one scope and its exit callback pops that scope, so that the
\* stack after the exit equals the stack before the enter, also for a node
\* without a name.
C18_Original ==
  [][/\ Len(open') = Len(open) + 1
          => /\ Len(scopeStack') = Len(scopeStack) + 1
             /\ SubSeq(scopeStack', 1, Len(scopeStack)) = scopeStack
     /\ predictCall.pc = "visiting" /\ Len(open') = Len(open) - 1
          => scopeStack' = open[Len(open)].before]_vars

\* C19: when the traversal throws, at whatever point, predict resolves with
\* exactly the predictions collected before the failure.
C19_PredictSurvivesTraversalFailure ==
  [][predictCall.pc = "visiting" /\ predictCall'.pc = "done" /\ predictCall'.warned
       => /\ predictCall'.outcome = "resolved"
          /\ predictCall'.returned = visitorPredictions]_vars

C19_Witness ==
  /\ predictCall.pc = "done"
  /\ predictCall.warned
  /\ predictCall.outcome = "resolved"
  /\ Len(predictCall.returned) = 1
  /\ open # <<>>

(***************************************************************************)
(* Failures of dispose                                                     *)
(***************************************************************************)
\* evaluation e of the log has a failed call of op
FailedIn(log, e, op) ==
  \E k \in 1..Len(log) : log[k].ev = e /\ log[k].op = op /\ log[k].ph = "fail"

\* C20 as stated: when predict fails and the dispose that follows fails
\* too, the error the evaluation settles with is the predict failure.
C20_Original ==
  \A s \in Slots : \A e \in 1..Len(calls[s].evals) :
    FailedIn(calls[s].log, e, "predict") /\ FailedIn(calls[s].log, e, "dispose")
      => calls[s].evals[e].error = "predict"

(***************************************************************************)
(* The registry                                                            *)
(***************************************************************************)
\* the registry entries that carry a name
Under(reg, name) == {k \in 1..Len(reg) : reg[k].name = name}

\* C21: the registry holds at most one approach per name and
\* getRegisteredApproaches lists each name once; a registration puts its
\* approach under its name and leaves the entries of the other names as
\* they were; an evaluation of a name takes the approach the registry holds
\* under that name, which is therefore the one registered last.
C21_RegisterOverwrites ==
  /\ [](/\ \A name \in ApproachNames : Cardinality(Under(registry, name)) <= 1
        /\ \A j, k \in 1..Len(Keys(registry)) :
             Keys(registry)[j] = Keys(registry)[k] => j = k)
  /\ [][/\ registry' # registry =>
             \E a \in Approaches :
               /\ \E k \in Under(registry', a.name) : registry'[k] = a
               /\ \A name \in ApproachNames \ {a.name} :
                    {registry'[k] : k \in Under(registry', name)}
                      = {registry[k] : k \in Under(registry, name)}
        /\ \A s \in Slots :
             Len(calls'[s].log) > Len(calls[s].log)
               /\ calls'[s].log[Len(calls'[s].log)].op = "initialize"
               /\ calls'[s].log[Len(calls'[s].log)].ph = "start"
               => \E k \in Under(registry, calls'[s].name) :
                    registry[k].id = calls'[s].log[Len(calls'[s].log)].obj]_vars

C21_Witness ==
  \E s \in Slots :
    /\ \E k \in 1..Len(calls[s].log) : calls[s].log[k].obj = "a1"
    /\ \E k \in 1..Len(calls[s].log) : calls[s].log[k].obj = "b1"
    /\ Len(registry) = 2
    /\ \E k \in 1..Len(registry) : registry[k].id = "a2"

\* C25: evaluateAllApproaches on an evaluator without registered approaches
\* resolves with an empty result mapping and calls no approach.
C25_NoApproachesEmptyMapping ==
  [][\A s \in Slots :
       calls[s].pc = "idle" /\ calls'[s].kind = "all" /\ registry = <<>>
         => /\ calls'[s].pc = "done"
            /\ calls'[s].outcome = "resolved"
            /\ calls'[s].error = "none"
            /\ calls'[s].results = <<>>
            /\ calls'[s].log = <<>>]_vars

C25_Witness ==
  \E s \in Slots :
    /\ calls[s].kind = "all" /\ calls[s].pc = "done"
    /\ calls[s].outcome = "resolved"
    /\ calls[s].results = <<>> /\ calls[s].log = <<>> /\ calls[s].evals = <<>>
    /\ registry = <<>>

\* C27: after a failed predict for a test case, the evaluation issues no
\* further predict and produces no result, and it settles failed, after
\* dispose has settled.
C27_PredictFailureEndsTheLoop ==
  \A s \in Slots : \A k \in 1..Len(calls[s].log) :
    LET log == calls[s].log
        e == log[k]
    IN  (e.op = "predict" /\ e.ph = "fail") =>
          /\ \A j \in (k + 1)..Len(log) :
               log[j].ev = e.ev => log[j].op \notin {"predict", "score"}
          /\ Len(calls[s].evals) >= e.ev =>
               /\ calls[s].evals[e.ev].error # "none"
               /\ \E j \in (k + 1)..Len(log) :
                    log[j].ev = e.ev /\ log[j].op = "dispose" /\ IsEnd(log[j])
          /\ calls[s].kind = "approach" =>
               /\ ~calls[s].hasResult
               /\ calls[s].pc = "done" => calls[s].outcome = "rejected"

C27_Witness ==
  \E s \in Slots :
    /\ calls[s].kind = "approach" /\ calls[s].pc = "done"
    /\ calls[s].n = 2
    /\ calls[s].outcome = "rejected"
    /\ \E k \in 1..Len(calls[s].log) :
         /\ calls[s].log[k].op = "predict" /\ calls[s].log[k].ph = "fail"
         /\ calls[s].log[k].tc = 1

\* C28: with several ground-truth entries at one identifier, line and
\* column, a prediction at that position is matched to the first of them
\* and judged against its actual type only, while every one of them counts
\* in the recall denominator of its own actual type.
C28_FirstDuplicateMatched ==
  result.scored =>
    /\ \A m \in 1..Len(Matches) :
         LET prediction == allPredictions[Matches[m].prediction]
             same == {g \in 1..Len(allGroundTruth) :
                        /\ allGroundTruth[g].identifier = prediction.identifier
                        /\ allGroundTruth[g].position = prediction.position}
         IN  /\ Matches[m].groundTruth \in same
             /\ \A g \in same : Matches[m].groundTruth <= g
             /\ Matches[m].correct <=>
                  prediction.predictedType = allGroundTruth[Matches[m].groundTruth].actualType
    /\ \A g \in 1..Len(allGroundTruth) :
         \E k \in 1..Len(result.recallByType) :
           /\ result.recallByType[k].key = allGroundTruth[g].actualType
           /\ result.recallByType[k].val.den =
                Cardinality({h \in 1..Len(allGroundTruth) :
                               allGroundTruth[h].actualType = allGroundTruth[g].actualType})

C28_Witness ==
  /\ result.scored
  /\ Len(allGroundTruth) = 2
  /\ allGroundTruth[1].identifier = allGroundTruth[2].identifier
  /\ allGroundTruth[1].position = allGroundTruth[2].position
  /\ allGroundTruth[1].actualType # allGroundTruth[2].actualType
  /\ Len(Matches) = 1
  /\ Matches[1].predictedType = allGroundTruth[2].actualType
  /\ ~Matches[1].correct
  /\ Len(result.recallByType) = 2

(***************************************************************************)
(* The scope tracking of TypePredictionVisitor                             *)
(***************************************************************************)
\* C29: in TypePredictionVisitor every enter callback of a structural node
\* pushes exactly one scope, named "anonymous" when the node has no name,
\* and every exit callback pops one, so that the depth of the stack is the
\* structural nesting depth plus one at every point and the stack is
\* ["global"] again when the traversal has left every node.
C29_TypePredictionStackFollowsNesting ==
  /\ [](/\ Len(tpScopeStack) = Len(tpOpen) + 1
        /\ tpOpen = <<>> => tpScopeStack = <<Global>>)
  /\ [][/\ Len(tpOpen') = Len(tpOpen) + 1 =>
             LET node == tpOpen'[Len(tpOpen')].node
                 scope == tpScopeStack'[Len(tpScopeStack')]
             IN  /\ tpScopeStack' = Append(tpScopeStack, scope)
                 /\ node.name = NoName /\ node.type # "ArrowFunctionExpression"
                      => scope[Len(scope)] = "anonymous"
        /\ Len(tpOpen') = Len(tpOpen) - 1 =>
             /\ Append(tpScopeStack', tpScopeStack[Len(tpScopeStack)]) = tpScopeStack
             /\ tpScopeStack' = tpOpen[Len(tpOpen)].before]_vars

C29_Witness ==
  /\ Len(tpOpen) = 2
  /\ tpOpen[1].node = [type |-> "ClassDeclaration", name |-> NoName]
  /\ tpOpen[2].node = [type |-> "ClassMethod", name |-> NoName]
  /\ tpScopeStack = << Global, <<"class:", "anonymous">>,
                       <<"class:", "anonymous", ".", "anonymous">> >>

(***************************************************************************)
(* The configuration of RandomTypeInferenceApproach                        *)
(***************************************************************************)
\* the two options after initialize(config) on the options held
Initialized(held, config) ==
  [ availableTypes |-> InitializeAvailableTypes(held.availableTypes, config),
    randomTypeProbability |->
      InitializeRandomTypeProbability(held.randomTypeProbability, config) ]

\* C23: initialize sets an option to the value the configuration holds for
\* it and keeps the value held before when the key is missing; a key it
\* does not know changes nothing; a second initialize with the same
\* configuration changes nothing.
C23_InitializeSetsPresentOptionsOnly ==
  /\ lastInitialize.called =>
       LET config == lastInitialize.config
           before == lastInitialize.before
       IN  /\ availableTypes =
                IF config.availableTypes.kind = "array"
                  THEN config.availableTypes.items ELSE before.availableTypes
           /\ randomTypeProbability =
                IF config.randomTypeProbability.kind = "number"
                  THEN config.randomTypeProbability.num ELSE before.randomTypeProbability
           /\ config.availableTypes = Undefined => availableTypes = before.availableTypes
           /\ config.randomTypeProbability = Undefined
                => randomTypeProbability = before.randomTypeProbability
  /\ \A config \in Configs :
       LET held == [ availableTypes |-> availableTypes,
                     randomTypeProbability |-> randomTypeProbability ]
       IN  Initialized(Initialized(held, config), config) = Initialized(held, config)

C23_Witness ==
  /\ lastInitialize.called
  /\ lastInitialize.config.availableTypes = Undefined
  /\ lastInitialize.config.other = String(<<"x">>)
  /\ lastInitialize.config.randomTypeProbability = Number(Fraction(0, 1))
  /\ lastInitialize.before.randomTypeProbability = Fraction(1, 2)
  /\ availableTypes = <<"number">>
  /\ randomTypeProbability = Fraction(0, 1)

\* a configuration that leaves the generator no choice
Deterministic ==
  \/ randomTypeProbability.num = 0
  \/ randomTypeProbability = Fraction(1, 1) /\ Len(availableTypes) = 1

\* the identifiers of a source the parent test does not skip
Candidates(src) == {k \in 1..Len(src) : src[k].kind = "identifier" /\ ~src[k].skipped}

\* C24: with randomTypeProbability 0, or randomTypeProbability 1 and a
\* single available type, all predict calls on one source return the same
\* predictions; under any configuration a call returns predictions of its
\* own traversal only, in source order, whatever the calls before it left.
C24_DeterministicPredictRepeats ==
  /\ Deterministic => \A i, j \in 1..Len(runs) : runs[i] = runs[j]
  /\ \A i \in 1..Len(runs) :
       /\ Len(runs[i]) <= Cardinality(Candidates(source))
       /\ \A k \in 1..Len(runs[i]) : runs[i][k].position.line \in Candidates(source)
       /\ \A j, k \in 1..Len(runs[i]) :
            j < k => runs[i][j].position.line < runs[i][k].position.line

C24_Witness ==
  /\ Len(runs) = 2
  /\ randomTypeProbability = Fraction(1, 1)
  /\ availableTypes = <<"number">>
  /\ runs[1] = runs[2]
  /\ Len(runs[2]) = 1
  /\ runs[2][1].scope = <<"function:", "f">>

\* C22: compareResults names as bestAccuracy the first entry, in the
\* mapping's order, of maximal accuracy and as fastestExecution an entry of
\* minimal execution time; totalTestCases is the totalPredictions of the
\* mapping's first entry, whatever the sorted list starts with, and 0 for an
\* empty mapping; the detailed list holds the mapping's rows by descending
\* accuracy.
C22_CompareSelectsBeforeSorting ==
  comparison.compared =>
    LET rows == ComparisonRows(resultMap)
        n == Len(rows)
        best == comparison.bestAccuracy
        fastest == comparison.fastestExecution
        detailed == comparison.detailedComparison
    IN  /\ n = 0 => comparison.totalTestCases = 0
        /\ n > 0 =>
             /\ \E k \in 1..n :
                  /\ best.approach = rows[k].approach
                  /\ best.score = rows[k].accuracy
                  /\ \A j \in 1..n : FracLeq(rows[j].accuracy, rows[k].accuracy)
                  /\ \A j \in 1..(k - 1) : ~FracEq(rows[j].accuracy, rows[k].accuracy)
             /\ \E k \in 1..n :
                  /\ fastest.approach = rows[k].approach
                  /\ ~fastest.infinite
                  /\ fastest.time = rows[k].executionTime
                  /\ \A j \in 1..n : rows[k].executionTime <= rows[j].executionTime
             /\ comparison.totalTestCases = resultMap[1].val.totalPredictions
        /\ Len(detailed) = n
        /\ {detailed[k] : k \in 1..n} = {rows[k] : k \in 1..n}
        /\ \A i, j \in 1..n : i < j => FracLeq(detailed[j].accuracy, detailed[i].accuracy)

\* a comparison of three results: the second and the third tie for the best
\* accuracy, the first is less accurate, and the sorted list starts with a
\* row whose totalPredictions differs from the one reported
C22_Witness ==
  /\ comparison.compared
  /\ Len(resultMap) = 3
  /\ ~FracLeq(resultMap[2].val.accuracy, resultMap[1].val.accuracy)
  /\ FracEq(resultMap[2].val.accuracy, resultMap[3].val.accuracy)
  /\ comparison.bestAccuracy.approach = resultMap[2].key
  /\ comparison.detailedComparison[1].totalPredictions # comparison.totalTestCases
  /\ resultMap[1].val.executionTime = resultMap[2].val.executionTime

\* C26: every Match of a scored evaluation pairs a prediction with a
\* ground-truth entry of the test case whose source produced the prediction,
\* never with an entry of another test case that has the same identifier,
\* line and column.
C26_Original ==
  result.scored =>
    LET matches == GetMatches(allPredictions, allGroundTruth)
    IN  \A m \in 1..Len(matches) :
          origins.predictions[matches[m].prediction] =
            origins.groundTruth[matches[m].groundTruth]

====
